---- MODULE Spec2Model ----
(***************************************************************************)
(* Weather-observation ingestion: the source adapters and the pipeline     *)
(* that writes the batch record (unified_data_pipeline.py), the loader     *)
(* that validates and upserts stations and observations into the document  *)
(* store (mongo_loader.py) and the duplicates check of the quality engine  *)
(* (quality_checker.py).                                                   *)
(*                                                                         *)
(* JSON values are tagged records: JNull, JStr(s) with s a tuple of        *)
(* one-character strings, JNum(n).  A JSON object (a Python dict, a store  *)
(* document) is a function from its keys to JSON values; a key that is     *)
(* absent is not in its DOMAIN.                                            *)
(***************************************************************************)
EXTENDS Integers, Sequences, FiniteSets, TLC

VARIABLES
  observations,    \* the observations collection, in natural (insertion) order
  stations,        \* the stations collection
  stations_cache,  \* DataLoader.stations_cache of the running loader
  stats,           \* the stats returned by the last load_jsonl_data call
  now,             \* the wall clock
  jsonl,           \* the lines of the JSONL file in the input directory (<<>>: no file)
  handlers,        \* UnifiedDataPipeline.handlers: the configured sources, in order
  report,          \* the report of the last run_all_checks call of the quality checker
  serving,         \* whether the database answers the aggregation of the date coverage check
  main,            \* the run of main() in progress: its program, its step, what failed, its report
  failing,         \* the check of the battery whose store query raises (0: none of the first six)
  alerts,          \* self.alerts of the DataQualityChecker made by main()
  returned,        \* the reports that checker has returned, in the order of the calls
  schema_metadata, \* the schema_metadata collection
  runs,            \* of each load of that file: its stats and its per-record results
  pc,              \* of each concurrent writer: where it is in its update_one
  pending          \* of each concurrent writer: the document it is upserting

vars == <<observations, stations, stations_cache, stats, now, jsonl, handlers, report, serving, main, failing, alerts, returned, schema_metadata, runs, pc, pending>>

(***************************************************************************)
(* Bounds of the model.                                                    *)
(***************************************************************************)
\* lines of one JSONL file handed to load_jsonl_data
MaxLines == 2
\* the wall clock read by datetime.now() runs over 0..MaxClock
MaxClock == 1
\* loads of the file in the input directory
MaxRuns == 2

(***************************************************************************)
(* JSON values                                                             *)
(***************************************************************************)
JNull == [t |-> "null"]
JStr(s) == [t |-> "str", v |-> s]
\* a JSON number with a fraction (a Python float, a BSON double)
JNum(n) == [t |-> "num", v |-> n]
\* a JSON number without fraction (a Python int, a BSON int)
JInt(n) == [t |-> "int", v |-> n]

IsStr(x) == x.t = "str"

\* dict.get(key): None when the key is absent
Get(record, key) == IF key \in DOMAIN record THEN record[key] ELSE JNull

\* Python truthiness of a JSON scalar: None, "" and 0 are falsy
Truthy(x) ==
  CASE x.t = "null" -> FALSE
    [] x.t = "str" -> x.v # <<>>
    [] x.t \in {"num", "int"} -> x.v # 0
    [] OTHER -> TRUE

\* c in s, for a one-character c
Contains(c, s) == \E i \in 1..Len(s) : s[i] = c

Digits == {"0", "1", "2", "3", "4", "5", "6", "7", "8", "9"}

Max(set) == CHOOSE x \in set : \A y \in set : y <= x

Min(set) == CHOOSE x \in set : \A y \in set : x <= y

\* the strict form YYYY-MM-DDTHH:MM:SSZ of the data model
IsStrictTimestamp(s) ==
  /\ Len(s) = 20
  /\ \A i \in {1, 2, 3, 4, 6, 7, 9, 10, 12, 13, 15, 16, 18, 19} : s[i] \in Digits
  /\ s[5] = "-" /\ s[8] = "-" /\ s[11] = "T"
  /\ s[14] = ":" /\ s[17] = ":" /\ s[20] = "Z"

(***************************************************************************)
(* The field lists of the code                                             *)
(***************************************************************************)
\* measurement_fields of validate_observation
ValidatorMeasurementFields ==
  {"temperature", "pression", "humidite", "vent_moyen", "vent_rafales", "pluie_1h", "visibilite"}

\* the measurement fields of a normalized observation (the adapters' normalized_row)
ModelMeasurementFields ==
  {"temperature", "pression", "humidite", "point_de_rosee", "visibilite", "vent_moyen",
   "vent_rafales", "vent_direction", "pluie_3h", "pluie_1h", "neige_au_sol", "nebulosite",
   "temps_omm"}

(***************************************************************************)
(* DataValidator                                                           *)
(***************************************************************************)
\* any(record.get(field) is not None for field in measurement_fields)
has_measurement(record) == \E field \in ValidatorMeasurementFields : Get(record, field) # JNull

validate_observation(record) ==
  IF ~Truthy(Get(record, "id_station")) THEN [valid |-> FALSE, error |-> "Missing id_station"]
  ELSE IF ~Truthy(Get(record, "dh_utc")) THEN [valid |-> FALSE, error |-> "Missing dh_utc"]
  ELSE LET timestamp == Get(record, "dh_utc") IN
    IF ~IsStr(timestamp) \/ ~Contains("T", timestamp.v) \/ ~Contains("Z", timestamp.v)
    THEN [valid |-> FALSE, error |-> "Invalid ISO 8601 timestamp"]
    ELSE IF ~has_measurement(record)
    THEN [valid |-> FALSE, error |-> "No measurement values present"]
    ELSE [valid |-> TRUE, error |-> "None"]

validate_station(record) ==
  IF ~Truthy(Get(record, "id_station")) THEN [valid |-> FALSE, error |-> "Missing id_station"]
  ELSE [valid |-> TRUE, error |-> "None"]

(***************************************************************************)
(* Variants of the operations below, each wrong in one way                 *)
(***************************************************************************)
\* a filter that no document matches
NeverMatches(coll, filter) == FALSE

\* a replacement of the whole document by the fields given
ReplaceDoc(doc, fields) == fields

\* an upsert that leaves the written document alone in the collection
ReplaceAll(coll, filter, fields) == [coll |-> <<fields>>, upserted |-> TRUE]

\* an insert_one in the place of the upsert
insert_one(coll, filter, fields) == [coll |-> Append(coll, fields), upserted |-> TRUE]

\* a stations_cache that is never consulted
NeverCached(station_id, cache) == FALSE

\* a result that does not look at upserted_id
AlwaysInserted(upserted) == "inserted"

(***************************************************************************)
(* The document store (MongoDB, through pymongo)                           *)
(***************************************************************************)
\* a query document of equality conditions; a null condition also matches an absent field
Matches(doc, filter) ==
  \A k \in DOMAIN filter :
    \/ k \in DOMAIN doc /\ doc[k] = filter[k]
    \/ k \notin DOMAIN doc /\ filter[k] = JNull

HasMatch(coll, filter) == \E i \in 1..Len(coll) : Matches(coll[i], filter)

\* the document update_one modifies: the first match in natural order
FirstMatch(coll, filter) ==
  CHOOSE i \in 1..Len(coll) :
    /\ Matches(coll[i], filter)
    /\ \A j \in 1..(i - 1) : ~Matches(coll[j], filter)

\* {'$set': fields} applied to a document: the fields given are overwritten, the others kept
ApplySet(doc, fields) == fields @@ doc

\* $jsonSchema validator of the observations collection
ObsSchemaOk(doc) ==
  /\ "id_station" \in DOMAIN doc /\ doc["id_station"].t = "str"
  /\ "dh_utc" \in DOMAIN doc /\ doc["dh_utc"].t = "str"
  /\ \A k \in DOMAIN doc \cap (ModelMeasurementFields \ {"nebulosite", "temps_omm"}) :
       doc[k].t \in {"num", "null"}
  /\ "nebulosite" \in DOMAIN doc => doc["nebulosite"].t \in {"str", "null"}
  /\ "temps_omm" \in DOMAIN doc => doc["temps_omm"].t \in {"int", "null"}
  /\ "_source" \in DOMAIN doc => doc["_source"].t = "str"
  /\ "_ingestion_timestamp" \in DOMAIN doc => doc["_ingestion_timestamp"].t = "str"

\* the document an update_one(filter, {'$set': fields}, upsert=True) leaves behind
WrittenDoc(coll, filter, fields) ==
  IF HasMatch(coll, filter) THEN ApplySet(coll[FirstMatch(coll, filter)], fields)
  ELSE ApplySet(filter, fields)

\* collection.update_one(filter, {'$set': fields}, upsert=True) run alone:
\* the result's upserted_id is set exactly when no document matched
update_one(coll, filter, fields) ==
  IF HasMatch(coll, filter)
  THEN [coll |-> [coll EXCEPT ![FirstMatch(coll, filter)] = ApplySet(@, fields)], upserted |-> FALSE]
  ELSE [coll |-> Append(coll, ApplySet(filter, fields)), upserted |-> TRUE]

(***************************************************************************)
(* DataLoader                                                              *)
(***************************************************************************)
\* datetime.now(timezone.utc).isoformat() at clock value t
isoformat(t) == <<"t", t>>

ZeroStats ==
  [stations_inserted |-> 0, stations_updated |-> 0, observations_inserted |-> 0,
   observations_updated |-> 0, schema_records_inserted |-> 0, skipped |-> 0, errors |-> 0]

\* an element of a stations or hourly list that is a JSON object
IsDict(x) == "t" \notin DOMAIN x

IsList(x) == x.t = "arr"

\* the filter_query of _insert_observation as a pair
ObsKey(obs) == <<Get(obs, "id_station"), Get(obs, "dh_utc")>>

\* S is the loader's view while load_jsonl_data runs: the two collections, the loader's
\* stations_cache, the stats of the call, the log of the call (the record and the result
\* of every _upsert_station and _insert_observation call so far), the result of the last
\* call, and whether an exception is propagating.
Logged(S, op, record, result) ==
  [S EXCEPT !.result = result,
            !.log = Append(@, [op |-> op, record |-> record, result |-> result])]

\* if station_id in self.stations_cache
AlreadyCached(station_id, cache) == station_id \in cache

\* 'inserted' if result.upserted_id else 'updated'
UpsertResult(upserted) == IF upserted THEN "inserted" ELSE "updated"

\* filter_query of _insert_observation
FilterQuery(obs) == [id_station |-> Get(obs, "id_station"), dh_utc |-> Get(obs, "dh_utc")]

upsert_station(S, station) ==
  IF ~IsDict(station) THEN [S EXCEPT !.raised = TRUE]
  ELSE IF ~validate_station(station).valid THEN Logged(S, "station", station, "skipped")
  ELSE LET station_id == Get(station, "id_station") IN
    IF AlreadyCached(station_id, S.stations_cache) THEN Logged(S, "station", station, "updated")
    ELSE LET r == update_one(S.stations, [id_station |-> station_id], station) IN
      Logged([S EXCEPT !.stations = r.coll, !.stations_cache = @ \cup {station_id}],
             "station", station, UpsertResult(r.upserted))

insert_observation(S, obs, source_name, t) ==
  IF ~IsDict(obs) THEN [S EXCEPT !.raised = TRUE]
  ELSE IF ~validate_observation(obs).valid THEN Logged(S, "observation", obs, "skipped")
  ELSE
    LET doc == [_source |-> JStr(source_name), _ingestion_timestamp |-> JStr(isoformat(t))] @@ obs
        filter_query == FilterQuery(obs)
        r == update_one(S.observations, filter_query, doc)
        ok == ObsSchemaOk(WrittenDoc(S.observations, filter_query, doc))
    IN IF ok THEN Logged([S EXCEPT !.observations = r.coll], "observation", obs, UpsertResult(r.upserted))
       ELSE Logged(S, "observation", obs, "error")

\* stats[result] += 1 for a result that has a counter
Count(S, counter) == [S EXCEPT !.stats[counter] = @ + 1]

CountStation(S) ==
  IF S.raised THEN S
  ELSE IF S.result = "inserted" THEN Count(S, "stations_inserted")
  ELSE IF S.result = "updated" THEN Count(S, "stations_updated")
  ELSE S

CountObservation(S) ==
  IF S.raised THEN S
  ELSE IF S.result = "inserted" THEN Count(S, "observations_inserted")
  ELSE IF S.result = "updated" THEN Count(S, "observations_updated")
  ELSE IF S.result = "skipped" THEN Count(S, "skipped")
  ELSE Count(S, "errors")

\* for station in data.get('stations', []): an exception ends the loops of the line
RECURSIVE LoadStations(_, _)
LoadStations(S, list) ==
  IF list = <<>> \/ S.raised THEN S
  ELSE LoadStations(CountStation(upsert_station(S, Head(list))), Tail(list))

\* for obs in observations
RECURSIVE LoadObservations(_, _, _, _)
LoadObservations(S, list, source_name, t) ==
  IF list = <<>> \/ S.raised THEN S
  ELSE LoadObservations(CountObservation(insert_observation(S, Head(list), source_name, t)),
                        Tail(list), source_name, t)

\* for station_id, observations in data.get('hourly', {}).items()
RECURSIVE LoadHourly(_, _, _, _)
LoadHourly(S, items, source_name, t) ==
  IF items = <<>> \/ S.raised THEN S
  ELSE LET observations_ == Head(items).observations
           S1 == IF IsList(observations_) THEN LoadObservations(S, observations_.v, source_name, t) ELSE S
       IN LoadHourly(S1, Tail(items), source_name, t)

\* the body of the loop over the lines of the content
LoadLine(S, line, source_name, t) ==
  IF line.kind = "blank" THEN S
  ELSE IF line.kind = "invalid" THEN Count(S, "errors")
  ELSE
    LET data == line.data
        S1 == IF "stations" \in DOMAIN data /\ "hourly" \in DOMAIN data
              THEN LoadHourly(LoadStations(S, data["stations"]), data["hourly"], source_name, t)
              ELSE IF "id_station" \in DOMAIN data /\ "dh_utc" \in DOMAIN data
              THEN CountObservation(insert_observation(S, data, source_name, t))
              ELSE S
    IN IF S1.raised THEN [Count(S1, "errors") EXCEPT !.raised = FALSE] ELSE S1

\* a variant of the loop over the lines, wrong in one way: a line that does not
\* parse ends the load
RECURSIVE LoadLinesUntilInvalid(_, _, _, _)
LoadLinesUntilInvalid(S, lines, source_name, t) ==
  IF lines = <<>> THEN S
  ELSE IF Head(lines).kind = "invalid" THEN Count(S, "errors")
  ELSE LoadLinesUntilInvalid(LoadLine(S, Head(lines), source_name, t), Tail(lines), source_name, t)

RECURSIVE LoadLines(_, _, _, _)
LoadLines(S, lines, source_name, t) ==
  IF lines = <<>> THEN S
  ELSE LoadLines(LoadLine(S, Head(lines), source_name, t), Tail(lines), source_name, t)

\* DataLoader.load_jsonl_data(content, source_name) at clock value t, from the store
\* (obs, sts) with the loader's cache; the stats field of the result is the value returned
load_jsonl_data(obs, sts, cache, content, source_name, t) ==
  LoadLines([observations |-> obs, stations |-> sts, stations_cache |-> cache,
             stats |-> ZeroStats, log |-> <<>>, result |-> "none", raised |-> FALSE],
            content, source_name, t)

(***************************************************************************)
(* Inputs                                                                  *)
(***************************************************************************)
Absent == [t |-> "absent"]

\* the JSON object with the keys of f whose value is given
MkObj(f) == [k \in {x \in DOMAIN f : f[x] # Absent} |-> f[k]]

JArr(list) == [t |-> "arr", v |-> list]

S1 == <<"S", "1">>
\* "2024-10-01T00:00:00Z"
TS1 == <<"2", "0", "2", "4", "-", "1", "0", "-", "0", "1", "T", "0", "0", ":", "0", "0", ":", "0", "0", "Z">>
\* "Sheet1T00:00:00Z": holds a T and a Z and is no timestamp
TSweak == <<"S", "h", "e", "e", "t", "1", "T", "0", "0", ":", "0", "0", ":", "0", "0", "Z">>
\* "2024-10-01T01:00:00Z"
TS2 == <<"2", "0", "2", "4", "-", "1", "0", "-", "0", "1", "T", "0", "1", ":", "0", "0", ":", "0", "0", "Z">>
\* "bad-format"
TSbad == <<"b", "a", "d", "-", "f", "o", "r", "m", "a", "t">>
N1 == <<"n", "1">>
N2 == <<"n", "2">>
\* Path(jsonl_file).stem
SourceName == <<"d", "a", "t", "a">>

Observation(id, dh, temperature, point_de_rosee) ==
  MkObj([id_station |-> id, dh_utc |-> dh, temperature |-> temperature,
         point_de_rosee |-> point_de_rosee])

\* observation objects of a JSONL file: one key with the temperature and the dew point
\* given, null or omitted, one record for each way the identifier or the timestamp
\* can be missing or ill-formed, and one whose temperature is no double
ObsRecords ==
  {Observation(JStr(S1), JStr(TS1), x[1], x[2]) :
     x \in {<<JNum(1), Absent>>, <<JNum(2), JNum(1)>>, <<JNull, JNum(1)>>, <<JNull, Absent>>}}
  \cup {Observation(i, JStr(TS1), JNum(1), Absent) : i \in {Absent, JNull}}
  \cup {Observation(JStr(S1), h, JNum(1), Absent) : h \in {Absent, JNull, JStr(TSbad), JStr(TSweak)}}
  \cup {Observation(JStr(S1), JStr(TS1), JInt(1), Absent)}

Station(id, name) == MkObj([id_station |-> id, name |-> name])

StationRecords ==
  {Station(JStr(S1), JStr(N1)), Station(JStr(S1), JStr(N2)), Station(JNull, JStr(N1))}

\* a line json.loads parses
Json(data) == [kind |-> "json", data |-> data]

BulkLine(station_list, hourly) == Json([stations |-> station_list, hourly |-> hourly])

\* a bulk line with a station and two observations, the second without identifier
MixedBulkLine ==
  BulkLine(<<Station(JStr(S1), JStr(N1))>>,
           <<[station_id |-> S1,
              observations |-> JArr(<<Observation(JStr(S1), JStr(TS1), JNum(1), Absent),
                                      Observation(Absent, JStr(TS1), JNum(1), Absent)>>)]>>)

\* an entry of a stations or hourly list that is a string, not an object
NotAnObject == JStr(<<"x">>)

\* bulk lines with an entry that fails between two that do not: a station entry that
\* is not an object, an observation entry that is not an object, and an observation
\* whose write the collection's validator refuses
FailingBulkLines ==
  {BulkLine(<<Station(JStr(S1), JStr(N1)), NotAnObject, Station(JStr(S1), JStr(N2))>>,
            <<[station_id |-> S1,
               observations |-> JArr(<<Observation(JStr(S1), JStr(TS1), JNum(1), Absent)>>)]>>)}
  \cup {BulkLine(<<Station(JStr(S1), JStr(N1))>>,
                 <<[station_id |-> S1,
                    observations |-> JArr(<<Observation(JStr(S1), JStr(TS1), JNum(1), Absent),
                                            x,
                                            Observation(JStr(S1), JStr(TS2), JNum(1), Absent)>>)]>>) :
          x \in {NotAnObject, Observation(JStr(S1), JStr(TS1), JInt(1), Absent)}}

BulkLines ==
  {BulkLine(<<a>>, <<>>) : a \in StationRecords}
  \cup {BulkLine(<<a, b>>, <<>>) : a \in StationRecords, b \in StationRecords}
  \cup {MixedBulkLine}
  \cup FailingBulkLines

InvalidLine == [kind |-> "invalid"]

Lines == {Json(r) : r \in ObsRecords} \cup BulkLines \cup {InvalidLine}

\* the lines that files of several lines are made of
CoreLines ==
  {Json(Observation(JStr(S1), JStr(TS1), JNum(1), Absent)),
   Json(Observation(JStr(S1), JStr(TS1), JNum(2), JNum(1))),
   InvalidLine}

\* the contents of a JSONL file: any line alone, or up to MaxLines core lines
Files == {<<l>> : l \in Lines} \cup UNION {[1..n -> CoreLines] : n \in 2..MaxLines}

(***************************************************************************)
(* Spec: loader runs, one at a time, each file loaded in one step          *)
(***************************************************************************)
Writers == {"w1", "w2"}

\* no quality check has run yet
NoReport == [status |-> "NONE"]

\* no main() has been started yet
NoMain ==
  [program |-> "none", step |-> "none", events |-> {}, reported |-> FALSE, left |-> 0,
   total |-> ZeroStats, started |-> 0]

Init ==
  /\ observations = <<>>
  /\ stations = <<>>
  /\ stations_cache = {}
  /\ stats = ZeroStats
  /\ now = 0
  /\ jsonl = <<>>
  /\ handlers = <<>>
  /\ report = NoReport
  /\ serving = TRUE
  /\ main = NoMain
  /\ failing = 0
  /\ alerts = <<>>
  /\ returned = <<>>
  /\ schema_metadata = <<>>
  /\ runs = <<>>
  /\ pc = [w \in Writers |-> "idle"]
  /\ pending = [w \in Writers |-> <<>>]

\* stats = loader.load_jsonl_data(content, source_name) in main()
LoadJsonlData(content) ==
  \E R \in {load_jsonl_data(observations, stations, stations_cache, content, SourceName, now)} :
    /\ observations' = R.observations
    /\ stations' = R.stations
    /\ stations_cache' = R.stations_cache
    /\ stats' = R.stats
    /\ UNCHANGED <<now, jsonl, handlers, report, serving, main, failing, alerts, returned, schema_metadata, runs, pc, pending>>

\* a new run of main(): loader = DataLoader(db, DataValidator()), with an empty
\* stations_cache and no load_jsonl_data call made yet
NewLoader ==
  /\ stations_cache # {} \/ stats # ZeroStats
  /\ stations_cache' = {}
  /\ stats' = ZeroStats
  /\ UNCHANGED <<observations, stations, now, jsonl, handlers, report, serving, main, failing, alerts, returned, schema_metadata, runs, pc, pending>>

\* time passes
Tick ==
  /\ now < MaxClock
  /\ now' = now + 1
  /\ UNCHANGED <<observations, stations, stations_cache, stats, jsonl, handlers, report, serving, main, failing, alerts, returned, schema_metadata, runs, pc, pending>>

\* the files loaded here hold lists whose entries are all objects; SpecRuns loads
\* the others as well
Next ==
  \/ \E content \in Files \ {<<l>> : l \in FailingBulkLines} : LoadJsonlData(content)
  \/ NewLoader
  \/ Tick

Spec == Init /\ [][Next]_vars

(***************************************************************************)
(* SpecRuns: up to MaxRuns loads into the empty store, with their history: *)
(* of each load its content, the stations_cache it started with, the stats *)
(* it returned and its log.  The first load is of any file; a later load   *)
(* replays the file just loaded or loads a follow-up file of one line.     *)
(***************************************************************************)
FollowUps ==
  {<<l>> : l \in CoreLines} \cup {<<BulkLine(<<a>>, <<>>)>> : a \in StationRecords}

RecordedLoad(content) ==
  /\ Len(runs) < MaxRuns
  /\ runs # <<>> => content = runs[Len(runs)].content \/ content \in FollowUps
  /\ \E R \in {load_jsonl_data(observations, stations, stations_cache, content, SourceName, now)} :
       /\ observations' = R.observations
       /\ stations' = R.stations
       /\ stations_cache' = R.stations_cache
       /\ stats' = R.stats
       /\ runs' = Append(runs, [content |-> content, cache |-> stations_cache,
                                stats |-> R.stats, log |-> R.log])
  /\ UNCHANGED <<now, jsonl, handlers, report, serving, main, failing, alerts, returned, schema_metadata, pc, pending>>

NextRuns ==
  \/ \E content \in Files : RecordedLoad(content)
  \/ NewLoader
  \/ Tick

SpecRuns == Init /\ [][NextRuns]_vars

(***************************************************************************)
(* SpecConc: two loader runs write observations at the same time.  The     *)
(* store runs an update_one with upsert=True in two steps: it looks for a  *)
(* match and, when there is one, updates it in that step; when there is    *)
(* none it inserts a new document in a later step.  _create_indexes puts   *)
(* no unique index on (id_station, dh_utc), so the insert is never refused.*)
(***************************************************************************)
\* the records the two runs write: two of one key that carry the same fields with
\* different values, so that $set of one leaves nothing of the other, and one of
\* another key
ConcRecords ==
  {Observation(JStr(S1), JStr(TS1), JNum(1), JNum(1)),
   Observation(JStr(S1), JStr(TS1), JNum(2), JNum(2)),
   Observation(JStr(S1), JStr(TS2), JNum(1), JNum(1))}

\* _insert_observation up to the call of update_one
BeginInsert(w, obs) ==
  /\ pc[w] = "idle"
  /\ validate_observation(obs).valid
  /\ pending' = [pending EXCEPT ![w] =
       [_source |-> JStr(SourceName), _ingestion_timestamp |-> JStr(isoformat(now))] @@ obs]
  /\ pc' = [pc EXCEPT ![w] = "update_one"]
  /\ UNCHANGED <<observations, stations, stations_cache, stats, now, jsonl, handlers, report, serving, main, failing, alerts, returned, schema_metadata, runs>>

\* the store looks for a document matching filter_query and updates the one it finds
FindAndUpdate(w) ==
  /\ pc[w] = "update_one"
  /\ IF HasMatch(observations, FilterQuery(pending[w]))
     THEN /\ observations' = [observations EXCEPT
                 ![FirstMatch(observations, FilterQuery(pending[w]))] = ApplySet(@, pending[w])]
          /\ pc' = [pc EXCEPT ![w] = "idle"]
     ELSE /\ pc' = [pc EXCEPT ![w] = "upsert"]
          /\ UNCHANGED observations
  /\ UNCHANGED <<stations, stations_cache, stats, now, jsonl, handlers, report, serving, main, failing, alerts, returned, schema_metadata, runs, pending>>

\* the store inserts the document of an upsert that found no match
InsertUpserted(w) ==
  /\ pc[w] = "upsert"
  /\ observations' = Append(observations, ApplySet(FilterQuery(pending[w]), pending[w]))
  /\ pc' = [pc EXCEPT ![w] = "idle"]
  /\ UNCHANGED <<stations, stations_cache, stats, now, jsonl, handlers, report, serving, main, failing, alerts, returned, schema_metadata, runs, pending>>

NextConc ==
  \/ \E w \in Writers : \E obs \in ConcRecords : BeginInsert(w, obs)
  \/ \E w \in Writers : FindAndUpdate(w)
  \/ \E w \in Writers : InsertUpserted(w)
  \/ Tick

SpecConc == Init /\ [][NextConc]_vars

(***************************************************************************)
(* Source adapters (unified_data_pipeline.py).  A cell of a sheet read     *)
(* with dtype=str is a string or NaN (a blank cell); a column the sheet    *)
(* does not have is absent from the row.                                   *)
(***************************************************************************)
\* float('nan')
NaN == [t |-> "nan"]

DigitChars == <<"0", "1", "2", "3", "4", "5", "6", "7", "8", "9">>

DigitValue(c) == CHOOSE d \in 0..9 : DigitChars[d + 1] = c

IsDigits(s) == \A i \in 1..Len(s) : s[i] \in Digits

\* the number a string of digits denotes
RECURSIVE ToNat(_)
ToNat(s) == IF s = <<>> THEN 0 ELSE 10 * ToNat(SubSeq(s, 1, Len(s) - 1)) + DigitValue(s[Len(s)])

Pad2(n) == <<DigitChars[(n \div 10) + 1], DigitChars[(n % 10) + 1]>>

Pad4(n) == Pad2(n \div 100) \o Pad2(n % 100)

\* str.strip()
RECURSIVE LStrip(_)
LStrip(s) == IF s # <<>> /\ Head(s) = " " THEN LStrip(Tail(s)) ELSE s

RECURSIVE RStrip(_)
RStrip(s) == IF s # <<>> /\ s[Len(s)] = " " THEN RStrip(SubSeq(s, 1, Len(s) - 1)) ELSE s

Strip(s) == RStrip(LStrip(s))

LowerChars ==
  <<"a", "b", "c", "d", "e", "f", "g", "h", "i", "j", "k", "l", "m",
    "n", "o", "p", "q", "r", "s", "t", "u", "v", "w", "x", "y", "z">>

UpperChars ==
  <<"A", "B", "C", "D", "E", "F", "G", "H", "I", "J", "K", "L", "M",
    "N", "O", "P", "Q", "R", "S", "T", "U", "V", "W", "X", "Y", "Z">>

\* str.upper()
Upper(s) ==
  [i \in 1..Len(s) |->
     IF \E k \in 1..26 : LowerChars[k] = s[i]
     THEN UpperChars[CHOOSE k \in 1..26 : LowerChars[k] = s[i]]
     ELSE s[i]]

\* str.lower()
Lower(s) ==
  [i \in 1..Len(s) |->
     IF \E k \in 1..26 : UpperChars[k] = s[i]
     THEN LowerChars[CHOOSE k \in 1..26 : UpperChars[k] = s[i]]
     ELSE s[i]]

\* str.replace(unit, '')
RECURSIVE Remove(_, _)
Remove(s, unit) ==
  IF Len(s) < Len(unit) \/ unit = <<>> THEN s
  ELSE IF SubSeq(s, 1, Len(unit)) = unit THEN Remove(SubSeq(s, Len(unit) + 1, Len(s)), unit)
  ELSE <<Head(s)>> \o Remove(Tail(s), unit)

\* str(x) of a cell, a number apart
str(x) ==
  CASE x.t = "str" -> x.v
    [] x.t = "nan" -> <<"n", "a", "n">>
    [] x.t = "null" -> <<"N", "o", "n", "e">>

\* the cell is falsy: None or the empty string (NaN is truthy)
Falsy(x) == x = JNull \/ (x.t = "str" /\ x.v = <<>>)

\* float(s) for the decimal texts [+-]digits[.digits] with at most two decimals, which
\* are the numeric texts of the model; the value is in hundredths
ParseFloat(s) ==
  LET signed == s # <<>> /\ s[1] \in {"-", "+"}
      body == IF signed THEN Tail(s) ELSE s
      dots == {i \in 1..Len(body) : body[i] = "."}
      whole == IF dots = {} THEN body ELSE SubSeq(body, 1, Min(dots) - 1)
      frac == IF dots = {} THEN <<>> ELSE SubSeq(body, Min(dots) + 1, Len(body))
      ok == /\ Cardinality(dots) <= 1
            /\ IsDigits(whole) /\ IsDigits(frac)
            /\ Len(whole) + Len(frac) >= 1
            /\ Len(frac) <= 2
      hundredths == 100 * ToNat(whole)
                    + (IF Len(frac) = 1 THEN 10 * ToNat(frac) ELSE ToNat(frac))
  IN IF ~ok THEN [ok |-> FALSE, v |-> 0]
     ELSE [ok |-> TRUE, v |-> IF signed /\ s[1] = "-" THEN 0 - hundredths ELSE hundredths]

\* a / b rounded to the nearest integer, a tie to the even one (b > 0)
RoundDiv(a, b) ==
  LET q == a \div b
      r == a % b
  IN IF 2 * r < b THEN q
     ELSE IF 2 * r > b THEN q + 1
     ELSE IF q % 2 = 0 THEN q ELSE q + 1

\* the converters: a blank, unreadable or absent cell gives None, a number gives the
\* converted value rounded to one decimal (a JNum, in hundredths)
Unreadable(cell) == Falsy(cell) \/ Upper(str(cell)) = <<"N", "A", "N">>

Reading(cell, unit) == ParseFloat(Strip(Remove(str(cell), unit)))

fahrenheit_to_celsius(cell) ==
  IF Unreadable(cell) \/ Strip(str(cell)) = <<>> THEN JNull
  ELSE LET f == Reading(cell, <<"°", "F">>) IN
    IF f.ok THEN JNum(10 * RoundDiv((f.v - 3200) * 5, 90)) ELSE JNull

mph_to_kmh(cell) ==
  IF Unreadable(cell) THEN JNull
  ELSE LET mph == Reading(cell, <<"m", "p", "h">>) IN
    IF mph.ok THEN JNum(10 * RoundDiv(mph.v * 160934, 1000000)) ELSE JNull

extract_percentage(cell) ==
  IF Unreadable(cell) THEN JNull
  ELSE LET p == Reading(cell, <<"%">>) IN
    IF p.ok THEN JNum(p.v) ELSE JNull

extract_pressure(cell) ==
  IF Unreadable(cell) THEN JNull
  ELSE LET in_val == Reading(cell, <<"i", "n">>) IN
    IF in_val.ok THEN JNum(10 * RoundDiv(in_val.v * 338639, 100000)) ELSE JNull

extract_precipitation(cell) ==
  IF Unreadable(cell) THEN JNull
  ELSE LET in_val == Reading(cell, <<"i", "n">>) IN
    IF in_val.ok THEN JNum(10 * RoundDiv(in_val.v * 254, 100)) ELSE JNull

\* direction_map: the sixteen compass points, in order from N, 22.5 degrees apart
CompassPoints ==
  <<<<"N">>, <<"N", "N", "E">>, <<"N", "E">>, <<"E", "N", "E">>,
    <<"E">>, <<"E", "S", "E">>, <<"S", "E">>, <<"S", "S", "E">>,
    <<"S">>, <<"S", "S", "W">>, <<"S", "W">>, <<"W", "S", "W">>,
    <<"W">>, <<"W", "N", "W">>, <<"N", "W">>, <<"N", "N", "W">>>>

\* the values of direction_map, in the order of its keys: the whole degrees are
\* Python ints, the halves floats (in hundredths)
DirectionDegrees ==
  <<JInt(0), JNum(2250), JInt(45), JNum(6750),
    JInt(90), JNum(11250), JInt(135), JNum(15750),
    JInt(180), JNum(20250), JInt(225), JNum(24750),
    JInt(270), JNum(29250), JInt(315), JNum(33750)>>

\* a variant of the conversion below, wrong in one way: a text that is no key of the
\* map reads as north
UnknownIsNorth(cell) ==
  IF Falsy(cell) THEN JNull
  ELSE LET direction_upper == Upper(Strip(str(cell)))
           points == {k \in 1..16 : CompassPoints[k] = direction_upper}
       IN IF points = {} THEN JInt(0) ELSE DirectionDegrees[CHOOSE p \in points : TRUE]

\* direction_map.get(str(direction_str).strip().upper(), None)
extract_wind_direction_degrees(cell) ==
  IF Falsy(cell) THEN JNull
  ELSE LET direction_upper == Upper(Strip(str(cell)))
           points == {k \in 1..16 : CompassPoints[k] = direction_upper}
       IN IF points = {} THEN JNull ELSE DirectionDegrees[CHOOSE p \in points : TRUE]

\* the splits of a sheet name into day and month digits that the pattern of "%d%m%y"
\* tries, in the order it tries them
SheetSplits == <<<<2, 2>>, <<2, 1>>, <<1, 2>>, <<1, 1>>>>

\* %d: 01..31 or 1..9
MatchesDay(s) == IsDigits(s) /\ ToNat(s) \in 1..31 /\ (Len(s) = 1 => ToNat(s) <= 9)

\* %m: 01..12 or 1..9
MatchesMonth(s) == IsDigits(s) /\ ToNat(s) \in 1..12 /\ (Len(s) = 1 => ToNat(s) <= 9)

SplitMatches(s, split) ==
  /\ Len(s) >= split[1] + split[2] + 2
  /\ MatchesDay(SubSeq(s, 1, split[1]))
  /\ MatchesMonth(SubSeq(s, split[1] + 1, split[1] + split[2]))
  /\ IsDigits(SubSeq(s, split[1] + split[2] + 1, split[1] + split[2] + 2))

IsLeap(year) == year % 4 = 0 /\ (year % 100 # 0 \/ year % 400 = 0)

DaysInMonth(year, month) ==
  IF month = 2 THEN (IF IsLeap(year) THEN 29 ELSE 28)
  ELSE IF month \in {4, 6, 9, 11} THEN 30 ELSE 31

\* datetime.strptime(s, "%d%m%y"): the first split that matches decides; text left
\* over or a day the month does not have is a ValueError
strptime(s) ==
  LET matching == {k \in 1..4 : SplitMatches(s, SheetSplits[k])} IN
  IF matching = {} THEN [ok |-> FALSE]
  ELSE LET split == SheetSplits[Min(matching)]
           day == ToNat(SubSeq(s, 1, split[1]))
           month == ToNat(SubSeq(s, split[1] + 1, split[1] + split[2]))
           yy == ToNat(SubSeq(s, split[1] + split[2] + 1, split[1] + split[2] + 2))
           year == IF yy < 69 THEN 2000 + yy ELSE 1900 + yy
       IN IF Len(s) # split[1] + split[2] + 2 \/ day > DaysInMonth(year, month)
          THEN [ok |-> FALSE]
          ELSE [ok |-> TRUE, year |-> year, month |-> month, day |-> day]

\* strftime("%Y-%m-%d")
strftime(date) == Pad4(date.year) \o <<"-">> \o Pad2(date.month) \o <<"-">> \o Pad2(date.day)

parse_sheet_date(sheet_name) ==
  LET date == strptime(Strip(sheet_name)) IN
  IF date.ok THEN strftime(date) ELSE sheet_name

\* the station dict both adapters build: its identifier is under the key 'id'
StationDict(id, name, city) ==
  [id |-> id, name |-> name, latitude |-> JNull, longitude |-> JNull, elevation |-> JNull,
   city |-> city, state |-> JNull, hardware |-> JNull, software |-> JNull]

\* the normalized_row of ExcelDataHandler.read
ExcelRow(station_id, sheet_date, row) ==
  LET time_str == IF "Time" \in DOMAIN row THEN str(row["Time"])
                  ELSE <<"0", "0", ":", "0", "0", ":", "0", "0">>
      dh_utc == IF sheet_date # <<>> THEN JStr(sheet_date \o <<"T">> \o time_str \o <<"Z">>) ELSE JNull
  IN [id_station |-> station_id,
      dh_utc |-> dh_utc,
      temperature |-> fahrenheit_to_celsius(Get(row, "Temperature")),
      pression |-> extract_pressure(Get(row, "Pressure")),
      humidite |-> extract_percentage(Get(row, "Humidity")),
      point_de_rosee |-> fahrenheit_to_celsius(Get(row, "Dew Point")),
      visibilite |-> JNull,
      vent_moyen |-> mph_to_kmh(Get(row, "Speed")),
      vent_rafales |-> mph_to_kmh(Get(row, "Gust")),
      vent_direction |-> extract_wind_direction_degrees(Get(row, "Wind")),
      pluie_3h |-> JNull,
      pluie_1h |-> extract_precipitation(Get(row, "Precip. Accum.")),
      neige_au_sol |-> JNull,
      nebulosite |-> JNull,
      temps_omm |-> JNull]

\* the rows of the sheets in order, each with the date of its sheet
RECURSIVE ExcelRows(_, _)
ExcelRows(station_id, sheets) ==
  IF sheets = <<>> THEN <<>>
  ELSE LET sheet == Head(sheets)
           sheet_date == parse_sheet_date(sheet.name)
       IN [i \in 1..Len(sheet.rows) |-> ExcelRow(station_id, sheet_date, sheet.rows[i])]
          \o ExcelRows(station_id, Tail(sheets))

\* ExcelDataHandler.read: (stations, hourly_records)
ExcelRead(source) ==
  [stations |-> <<StationDict(source.station_id, source.station_name, JNull)>>,
   hourly |-> <<[station_id |-> source.station_id,
                 observations |-> ExcelRows(source.station_id, source.sheets)]>>]

\* the converter did not return: the exception named left it
Raised(exception) == [t |-> "raise", exception |-> exception]

\* a text parser.parse reads as one number too large for a C integer: it takes the
\* number for the year and datetime.replace raises OverflowError
Overflows(s) == IsDigits(s) /\ Len(s) > 14

\* dateutil's parser.parse and strftime('%Y-%m-%dT%H:%M:%SZ') for the shapes of the
\* model: a date and a time of day separated by T or a blank, with or without a Z;
\* a number too large is an OverflowError, which the except clause does not name;
\* any other text is a ValueError
normalize_timestamp(ts) ==
  IF Falsy(ts) \/ Strip(str(ts)) = <<>> THEN JNull
  ELSE LET s == str(ts)
           body == IF s[Len(s)] = "Z" THEN SubSeq(s, 1, Len(s) - 1) ELSE s
       IN IF Len(body) = 19 /\ body[11] \in {"T", " "}
             /\ IsStrictTimestamp(SubSeq(body, 1, 10) \o <<"T">> \o SubSeq(body, 12, 19) \o <<"Z">>)
          THEN JStr(SubSeq(body, 1, 10) \o <<"T">> \o SubSeq(body, 12, 19) \o <<"Z">>)
          ELSE IF Overflows(Strip(s)) THEN Raised("OverflowError")
          ELSE JNull

\* value is None, '' or a text that reads null or nan
NullLike(value) ==
  \/ Falsy(value)
  \/ value.t = "nan"
  \/ value.t = "str" /\ Lower(value.v) \in {<<"n", "u", "l", "l">>, <<"n", "a", "n">>}

to_float(value) ==
  IF NullLike(value) THEN JNull
  ELSE IF value.t = "num" THEN value
  ELSE IF value.t = "int" THEN JNum(100 * value.v)
  ELSE LET f == ParseFloat(Strip(value.v)) IN IF f.ok THEN JNum(f.v) ELSE JNull

\* int() truncates toward zero
Truncate(hundredths) ==
  IF hundredths >= 0 THEN hundredths \div 100 ELSE 0 - ((0 - hundredths) \div 100)

to_int(value) ==
  LET f == to_float(value) IN IF f = JNull THEN JNull ELSE JInt(Truncate(f.v))

\* the normalized_row of JSONDataHandler.read
JsonRow(row) ==
  [id_station |-> Get(row, "id_station"),
   dh_utc |-> normalize_timestamp(Get(row, "dh_utc")),
   temperature |-> to_float(Get(row, "temperature")),
   pression |-> to_float(Get(row, "pression")),
   humidite |-> to_float(Get(row, "humidite")),
   point_de_rosee |-> to_float(Get(row, "point_de_rosee")),
   visibilite |-> to_float(Get(row, "visibilite")),
   vent_moyen |-> to_float(Get(row, "vent_moyen")),
   vent_rafales |-> to_float(Get(row, "vent_rafales")),
   vent_direction |-> to_float(Get(row, "vent_direction")),
   pluie_3h |-> to_float(Get(row, "pluie_3h")),
   pluie_1h |-> to_float(Get(row, "pluie_1h")),
   neige_au_sol |-> to_float(Get(row, "neige_au_sol")),
   nebulosite |-> Get(row, "nebulosite"),
   temps_omm |-> to_int(Get(row, "temps_omm"))]

\* "_params"
ParamsKey == <<"_", "p", "a", "r", "a", "m", "s">>

\* the row was appended to normalized: an exception in a converter leaves the try
\* block of the row, which is then not in the list
Normalized(row) == \A k \in DOMAIN row : row[k].t # "raise"

\* the hourly entries JSONDataHandler.read keeps: lists, the _params entry apart; of
\* each list the rows whose conversion raised nothing
RECURSIVE JsonHourly(_)
JsonHourly(items) ==
  IF items = <<>> THEN <<>>
  ELSE LET item == Head(items) IN
    IF IsList(item.observations) /\ item.station_id # JStr(ParamsKey)
    THEN <<[station_id |-> item.station_id,
            observations |-> SelectSeq([i \in 1..Len(item.observations.v) |->
                                          JsonRow(item.observations.v[i])], Normalized)]>>
         \o JsonHourly(Tail(items))
    ELSE JsonHourly(Tail(items))

\* JSONDataHandler.read: (stations, hourly_records)
JsonRead(source) ==
  [stations |-> [i \in 1..Len(source.data.stations) |->
                   StationDict(Get(source.data.stations[i], "id"),
                               Get(source.data.stations[i], "name"),
                               Get(source.data.stations[i], "name"))],
   hourly |-> JsonHourly(source.data.hourly)]

(***************************************************************************)
(* DataSourceHandler and UnifiedDataPipeline                               *)
(***************************************************************************)
\* measurement_fields of filter_empty_rows
FilterMeasurementFields ==
  {"temperature", "pression", "humidite", "vent_moyen", "vent_rafales", "pluie_3h", "pluie_1h"}

\* row.get(field) is not None and str(row.get(field, '')).strip()
HasValue(row, field) ==
  /\ Get(row, field) # JNull
  /\ Get(row, field).t = "str" => Strip(Get(row, field).v) # <<>>

RECURSIVE filter_empty_rows(_)
filter_empty_rows(data) ==
  IF data = <<>> THEN <<>>
  ELSE IF \E field \in FilterMeasurementFields : HasValue(Head(data), field)
  THEN <<Head(data)>> \o filter_empty_rows(Tail(data))
  ELSE filter_empty_rows(Tail(data))

\* handler.read() of the handler of a source
SourceRead(source) == IF source.type = "excel" THEN ExcelRead(source) ELSE JsonRead(source)

\* DataSourceHandler.process: read, then filter the rows of each station
process(source) ==
  LET read == IF source.type = "excel" THEN ExcelRead(source) ELSE JsonRead(source) IN
  IF source.skip_empty_rows
  THEN [read EXCEPT !.hourly = [i \in 1..Len(read.hourly) |->
          [read.hourly[i] EXCEPT !.observations = filter_empty_rows(@)]]]
  ELSE read

\* a variant of the station merge, wrong in one way: no station is dropped
AppendStation(all_stations, station) == Append(all_stations, station)

\* the stations merged so far and one more: dropped when its id is already there
MergeStation(all_stations, station) ==
  IF \E i \in 1..Len(all_stations) : all_stations[i]["id"] = station["id"]
  THEN all_stations ELSE Append(all_stations, station)

RECURSIVE MergeStations(_, _)
MergeStations(all_stations, list) ==
  IF list = <<>> THEN all_stations
  ELSE MergeStations(MergeStation(all_stations, Head(list)), Tail(list))

\* all_hourly[station_id].extend(records), a new station_id going last
MergeRecords(all_hourly, item) ==
  IF \E i \in 1..Len(all_hourly) : all_hourly[i].station_id = item.station_id
  THEN [i \in 1..Len(all_hourly) |->
          IF all_hourly[i].station_id = item.station_id
          THEN [all_hourly[i] EXCEPT !.observations = @ \o item.observations]
          ELSE all_hourly[i]]
  ELSE Append(all_hourly, item)

RECURSIVE MergeHourly(_, _)
MergeHourly(all_hourly, items) ==
  IF items = <<>> THEN all_hourly
  ELSE MergeHourly(MergeRecords(all_hourly, Head(items)), Tail(items))

\* UnifiedDataPipeline.merge_sources over the results of the sources, in order
RECURSIVE MergeFrom(_, _)
MergeFrom(merged, results) ==
  IF results = <<>> THEN merged
  ELSE MergeFrom([stations |-> MergeStations(merged.stations, Head(results).stations),
                  hourly |-> MergeHourly(merged.hourly, Head(results).hourly)],
                 Tail(results))

merge_sources(results) == MergeFrom([stations |-> <<>>, hourly |-> <<>>], results)

\* an object key as json.dumps writes it: None becomes "null"
JsonKey(key) == IF key = JNull THEN <<"n", "u", "l", "l">> ELSE key.v

\* json.loads(json.dumps(unified_structure)): scalars come back as they went, the keys
\* of the hourly map come back as strings, each list of rows as a JSON array
BatchLine(merged) ==
  Json([status |-> JStr(<<"O", "K">>),
        stations |-> merged.stations,
        metadata |-> <<>>,
        hourly |-> [i \in 1..Len(merged.hourly) |->
                      [station_id |-> JsonKey(merged.hourly[i].station_id),
                       observations |-> JArr(merged.hourly[i].observations)]]])

\* UnifiedDataPipeline.run over the sources of the configuration: the lines of the
\* file it saves
save_normalized_data(sources) ==
  <<BatchLine(merge_sources([i \in 1..Len(sources) |-> process(sources[i])]))>>

(***************************************************************************)
(* Inputs of the pipeline                                                  *)
(***************************************************************************)
\* "011024": 1 October 2024
SheetGood == <<"0", "1", "1", "0", "2", "4">>
\* "Sheet1": no date
SheetRaw == <<"S", "h", "e", "e", "t", "1">>
\* "300224": no such day
SheetNoDay == <<"3", "0", "0", "2", "2", "4">>

SheetNames == {SheetGood, SheetRaw, SheetNoDay}

\* "00:00:00"
Midnight == <<"0", "0", ":", "0", "0", ":", "0", "0">>
\* "12:04 AM"
NoonForm == <<"1", "2", ":", "0", "4", " ", "A", "M">>

TimeCells == {JStr(Midnight), JStr(NoonForm), NaN, Absent}

\* "59 °F", blank
TemperatureCells == {JStr(<<"5", "9", " ", "°", "F">>), NaN}

\* the cells of the Wind column: the sixteen abbreviations, "nne", " N", "X", "",
\* None and a blank cell
WindCells ==
  {JStr(CompassPoints[k]) : k \in 1..16}
  \cup {JStr(<<"n", "n", "e">>), JStr(<<" ", "N">>), JStr(<<"X">>), JStr(<<>>), JNull, NaN}

\* "99999999999999999999": a number too large for a year
Nines == [i \in 1..20 |-> "9"]

\* cells and JSON values the converters are to read as null (None, "", "null", "NULL",
\* "nan", "NaN", a blank cell) and a text that is nothing ("abc")
ConverterCells ==
  {JStr(x) : x \in {<<>>, <<"n", "u", "l", "l">>, <<"N", "U", "L", "L">>, <<"n", "a", "n">>,
                    <<"N", "a", "N">>, <<"a", "b", "c">>}}
  \cup {JNull, NaN}

\* a row of a sheet with the same cell in every column that is converted
FullRow(cell) ==
  [k \in {"Time", "Temperature", "Dew Point", "Humidity", "Pressure", "Speed", "Gust",
          "Precip. Accum."} |-> IF k = "Time" THEN JStr(Midnight) ELSE cell]

SheetRow(time, temperature, wind) ==
  MkObj([Time |-> time, Temperature |-> temperature, Wind |-> wind])

ExcelSource(station_id, skip_empty_rows, sheet_name, row) ==
  [type |-> "excel", station_id |-> station_id, station_name |-> JStr(N1),
   skip_empty_rows |-> skip_empty_rows,
   sheets |-> <<[name |-> sheet_name, rows |-> <<row>>]>>]

ExcelSources ==
  {ExcelSource(id, skip, name, SheetRow(time, temperature, NaN)) :
     id \in {JStr(S1), JNull}, skip \in BOOLEAN, name \in SheetNames,
     time \in TimeCells, temperature \in TemperatureCells}
  \cup {ExcelSource(JStr(S1), FALSE, SheetGood, SheetRow(JStr(Midnight), NaN, wind)) : wind \in WindCells}
  \cup {ExcelSource(JStr(S1), FALSE, SheetGood, FullRow(cell)) : cell \in ConverterCells}

\* "2024-10-01 00:00:00"
TSblank == <<"2", "0", "2", "4", "-", "1", "0", "-", "0", "1", " ", "0", "0", ":", "0", "0", ":", "0", "0">>

JsonSource(station_list, items) ==
  [type |-> "json", skip_empty_rows |-> TRUE, data |-> [stations |-> station_list, hourly |-> items]]

\* stations of the structured source: its identifier is under 'id'
RawStations == {MkObj([id |-> JStr(S1), name |-> JStr(N2)]), MkObj([id |-> JNull, name |-> JStr(N2)])}

RawRows ==
  {MkObj([id_station |-> JStr(S1), dh_utc |-> dh, temperature |-> temperature]) :
     dh \in {JStr(TS1), JStr(TSblank), JStr(TSbad), JNull},
     temperature \in {JNum(150), JInt(15), JStr(<<"1", "5", ".", "5">>), JNull}}
  \cup {MkObj([id_station |-> JStr(S1), dh_utc |-> JStr(TS1), visibilite |-> JNum(1000)]),
        MkObj([id_station |-> JStr(S1), dh_utc |-> JStr(TS1), pluie_3h |-> JNum(100)])}
  \cup {MkObj([id_station |-> JStr(S1), dh_utc |-> x, temperature |-> x, temps_omm |-> x]) :
          x \in ConverterCells}
  \cup {MkObj([id_station |-> JStr(S1), dh_utc |-> JStr(TS1), temperature |-> JNum(150),
               temps_omm |-> x]) : x \in {JInt(3), JNum(570), JStr(<<"5">>)}}
  \cup {MkObj([id_station |-> JStr(S1), dh_utc |-> JStr(Nines), temperature |-> JNum(150)])}

JsonSources ==
  {JsonSource(<<st>>, <<[station_id |-> JStr(S1), observations |-> JArr(<<row>>)]>>) :
     st \in RawStations, row \in RawRows}
  \cup {JsonSource(<<>>, <<[station_id |-> JStr(ParamsKey), observations |-> JArr(<<row>>)],
                           [station_id |-> JStr(S1), observations |-> JNull]>>) : row \in RawRows}
  \cup {JsonSource(<<a, b>>, <<>>) :
          a \in RawStations \cup {MkObj([id |-> JStr(S1), name |-> JStr(N1)])}, b \in RawStations}

\* the sources of a configuration: one source, or a tabular and a structured one
CoreExcelSource == ExcelSource(JStr(S1), TRUE, SheetGood, SheetRow(JStr(Midnight), JStr(<<"5", "9", " ", "°", "F">>), NaN))

Configurations ==
  {<<e>> : e \in ExcelSources}
  \cup {<<j>> : j \in JsonSources}
  \cup {<<CoreExcelSource, j>> : j \in JsonSources}
  \cup {<<j, CoreExcelSource>> : j \in JsonSources}

(***************************************************************************)
(* SpecPipeline: one run of the pipeline saves a batch record, which loader *)
(* runs then load, up to MaxRuns times                                      *)
(***************************************************************************)
\* pipeline.run(local_storage)
RunPipeline(sources) ==
  /\ jsonl = <<>>
  /\ jsonl' = save_normalized_data(sources)
  /\ handlers' = sources
  /\ UNCHANGED <<observations, stations, stations_cache, stats, now, report, serving, main, failing, alerts, returned, schema_metadata, runs, pc, pending>>

\* content = data_source.read_file(jsonl_file); loader.load_jsonl_data(content, ...)
LoadBatchRecord ==
  /\ jsonl # <<>>
  /\ Len(runs) < MaxRuns
  /\ \E R \in {load_jsonl_data(observations, stations, stations_cache, jsonl, SourceName, now)} :
       /\ observations' = R.observations
       /\ stations' = R.stations
       /\ stations_cache' = R.stations_cache
       /\ stats' = R.stats
       /\ runs' = Append(runs, [content |-> jsonl, cache |-> stations_cache,
                                stats |-> R.stats, log |-> R.log])
  /\ UNCHANGED <<now, jsonl, handlers, report, serving, main, failing, alerts, returned, schema_metadata, pc, pending>>

NextPipeline ==
  \/ \E sources \in Configurations : RunPipeline(sources)
  \/ LoadBatchRecord
  \/ NewLoader
  \/ Tick

SpecPipeline == Init /\ [][NextPipeline]_vars

(***************************************************************************)
(* DataLoader: the schema metadata                                         *)
(***************************************************************************)
\* sub in s, for strings
HasSubstring(sub, s) ==
  \E i \in 1..(Len(s) - Len(sub) + 1) : SubSeq(s, i, i + Len(sub) - 1) = sub

\* a type inference that looks for the float keywords first
FloatFirst(description) ==
  LET desc_lower == Lower(description)
      has(word) == HasSubstring(word, desc_lower)
  IN IF has(<<"f", "l", "o", "a", "t">>) \/ has(<<"d", "o", "u", "b", "l", "e">>) \/ has(<<"d", "e", "c", "i", "m", "a", "l">>) THEN "double"
     ELSE IF has(<<"s", "t", "r", "i", "n", "g">>) \/ has(<<"t", "e", "x", "t">>) THEN "string"
     ELSE IF has(<<"i", "n", "t">>) \/ has(<<"c", "o", "d", "e">>) THEN "int"
     ELSE IF has(<<"b", "o", "o", "l">>) THEN "bool"
     ELSE IF has(<<"d", "a", "t", "e">>) \/ has(<<"t", "i", "m", "e", "s", "t", "a", "m", "p">>) THEN "string"
     ELSE "double"

\* _infer_bson_type(field_name, description): the field name is not looked at
infer_bson_type(description) ==
  LET desc_lower == Lower(description)
      has(word) == HasSubstring(word, desc_lower)
  IN IF has(<<"s", "t", "r", "i", "n", "g">>) \/ has(<<"t", "e", "x", "t">>) THEN "string"
     ELSE IF has(<<"i", "n", "t">>) \/ has(<<"c", "o", "d", "e">>) THEN "int"
     ELSE IF has(<<"f", "l", "o", "a", "t">>) \/ has(<<"d", "o", "u", "b", "l", "e">>) \/ has(<<"d", "e", "c", "i", "m", "a", "l">>) THEN "double"
     ELSE IF has(<<"b", "o", "o", "l">>) THEN "bool"
     ELSE IF has(<<"d", "a", "t", "e">>) \/ has(<<"t", "i", "m", "e", "s", "t", "a", "m", "p">>) THEN "string"
     ELSE "double"

\* schema_doc of load_schema_metadata at clock value t
SchemaDoc(field_name, description, t) ==
  [field_name |-> JStr(field_name),
   description |-> description,
   bsonType |-> infer_bson_type(description.v),
   required |-> field_name \in {<<"i", "d", "_", "s", "t", "a", "t", "i", "o", "n">>, <<"d", "h", "_", "u", "t", "c">>},
   indexed |-> field_name \in {<<"i", "d", "_", "s", "t", "a", "t", "i", "o", "n">>, <<"d", "h", "_", "u", "t", "c">>, <<"c", "i", "t", "y">>},
   added_at |-> isoformat(t)]

\* load_schema_metadata(output_metadata): the items of the dict in their order; a
\* description that is not a string raises in _infer_bson_type (description.lower())
\* and its field is passed over
RECURSIVE load_schema_metadata(_, _, _)
load_schema_metadata(coll, output_metadata, t) ==
  IF output_metadata = <<>> THEN [coll |-> coll, count |-> 0]
  ELSE LET field_name == Head(output_metadata)[1]
           description == Head(output_metadata)[2]
           written == IF description.t # "str" THEN coll
                      ELSE update_one(coll, [field_name |-> JStr(field_name)],
                                      SchemaDoc(field_name, description, t)).coll
           rest == load_schema_metadata(written, Tail(output_metadata), t)
       IN [coll |-> rest.coll,
           count |-> rest.count + (IF description.t # "str" THEN 0 ELSE 1)]

\* loader.load_schema_metadata(output_metadata) in main()
LoadSchemaMetadata(output_metadata) ==
  /\ schema_metadata' = load_schema_metadata(schema_metadata, output_metadata, now).coll
  /\ UNCHANGED <<observations, stations, stations_cache, stats, now, jsonl, handlers, report, serving, main, failing, alerts, returned, runs, pc, pending>>

\* the descriptions of the fields
Descriptions ==
  {<<"S", "t", "r", "i", "n", "g", " ", "c", "o", "d", "e">>,
   <<"I", "n", "t", "e", "g", "e", "r">>,
   <<"C", "O", "D", "E">>,
   <<"F", "l", "o", "a", "t">>,
   <<"d", "o", "u", "b", "l", "e", " ", "t", "e", "x", "t">>,
   <<"d", "e", "c", "i", "m", "a", "l", " ", "i", "n", "t">>,
   <<"B", "o", "o", "l", "e", "a", "n", " ", "f", "l", "o", "a", "t">>,
   <<"b", "o", "o", "l", " ", "d", "a", "t", "e">>,
   <<"T", "i", "m", "e", "s", "t", "a", "m", "p">>,
   <<"d", "a", "t", "e">>,
   <<"h", "P", "a">>,
   <<"D", "e", "w", " ", "p", "o", "i", "n", "t">>}

\* the output_metadata of the configuration: a dict of one field or of two
Metadata ==
  {<<<<<<"t", "e", "m", "p", "e", "r", "a", "t", "u", "r", "e">>, JStr(d)>>>> : d \in Descriptions}
  \cup {<<<<<<"t", "e", "m", "p", "e", "r", "a", "t", "u", "r", "e">>, JNull>>>>}
  \cup {<<<<<<"i", "d", "_", "s", "t", "a", "t", "i", "o", "n">>, d1>>, <<<<"d", "h", "_", "u", "t", "c">>, d2>>>> :
          d1 \in {JStr(<<"S", "t", "r", "i", "n", "g", " ", "c", "o", "d", "e">>), JNull}, d2 \in {JStr(<<"T", "i", "m", "e", "s", "t", "a", "m", "p">>), JStr(<<"b", "o", "o", "l", " ", "d", "a", "t", "e">>)}}

NextSchema ==
  \/ \E output_metadata \in Metadata : LoadSchemaMetadata(output_metadata)
  \/ Tick

SpecSchema == Init /\ [][NextSchema]_vars

\* the output_metadata of the runs that also load files
CoreMetadata ==
  <<<<<<"i", "d", "_", "s", "t", "a", "t", "i", "o", "n">>, JStr(<<"S", "t", "r", "i", "n", "g", " ", "c", "o", "d", "e">>)>>, <<<<"d", "h", "_", "u", "t", "c">>, JStr(<<"T", "i", "m", "e", "s", "t", "a", "m", "p">>)>>>>

\* a run of main(): the schema metadata is loaded, then files of one line each
NextLoader ==
  \/ LoadSchemaMetadata(CoreMetadata)
  \/ \E line \in Lines : LoadJsonlData(<<line>>)
  \/ NewLoader
  \/ Tick

SpecLoader == Init /\ [][NextLoader]_vars

(***************************************************************************)
(* DataQualityChecker                                                      *)
(* Percentages, temperatures and pressures are in hundredths.              *)
(***************************************************************************)
THRESHOLDS ==
  [max_null_percentage |-> 2000, max_duplicate_percentage |-> 50,
   temperature_min |-> 0 - 5000, temperature_max |-> 6000,
   pressure_min |-> 90000, pressure_max |-> 105000]

\* round(count / total_count * 100, 2)
Percentage(count, total_count) == RoundDiv(count * 10000, total_count)

\* one string appended to self.alerts: its wording, the field and the number it prints
Alert(text, field, value) == [text |-> text, field |-> field, value |-> value]

\* count_documents({field: None}): the field is null or absent
NullCount(coll, field) ==
  Cardinality({i \in 1..Len(coll) : Get(coll[i], field) = JNull})

\* _check_missing_fields
check_missing_fields(coll, total_count) ==
  LET missing_station == NullCount(coll, "id_station")
      missing_timestamp == NullCount(coll, "dh_utc")
  IN [result |->
        [id_station |-> [count |-> missing_station,
                         percentage |-> Percentage(missing_station, total_count)],
         dh_utc |-> [count |-> missing_timestamp,
                     percentage |-> Percentage(missing_timestamp, total_count)]],
      alerts |->
        IF missing_station > 0 \/ missing_timestamp > 0
        THEN <<Alert("Missing required fields", "", missing_station + missing_timestamp)>>
        ELSE <<>>]

\* the _id of the $group stage: a field that is absent groups as null
GroupKey(doc) == <<Get(doc, "id_station"), Get(doc, "dh_utc")>>

\* $group by (id_station, dh_utc) with count, then $match count > 1
DuplicateGroups(coll) ==
  {k \in {GroupKey(coll[i]) : i \in 1..Len(coll)} :
     Cardinality({i \in 1..Len(coll) : GroupKey(coll[i]) = k}) > 1}

\* the rows beyond the first of each group
SurplusRows(coll) ==
  Len(coll) - Cardinality({GroupKey(coll[i]) : i \in 1..Len(coll)})

\* a duplicates check that counts the surplus rows
CountSurplusRows(coll) ==
  [count |-> SurplusRows(coll), percentage |-> Percentage(SurplusRows(coll), Len(coll))]

\* _check_duplicates: the count is the number of groups, the percentage that of
\* total_count = count_documents({}), rounded to two decimals
check_duplicates(coll) ==
  LET dup_count == Cardinality(DuplicateGroups(coll)) IN
  [count |-> dup_count, percentage |-> Percentage(dup_count, Len(coll))]

\* the alert of _check_duplicates compares the rounded percentage
DuplicateAlerts(result) ==
  IF result.percentage > THRESHOLDS.max_duplicate_percentage
  THEN <<Alert("High duplicate rate", "", result.percentage)>>
  ELSE <<>>

\* a stored number, in hundredths
Hundredths(x) == IF x.t = "int" THEN 100 * x.v ELSE x.v

RECURSIVE SumOf(_)
SumOf(set) ==
  IF set = {} THEN 0
  ELSE LET i == CHOOSE i \in set : TRUE IN i[2] + SumOf(set \ {i})

\* the $match and $group of _check_data_ranges for one field: the values of type int
\* or double; NaN is a double and sorts below every number
RangeOf(coll, field) ==
  LET matched == {i \in 1..Len(coll) : Get(coll[i], field).t \in {"int", "num", "nan"}}
      numbers == {i \in matched : Get(coll[i], field) # NaN}
      value(i) == Hundredths(Get(coll[i], field))
      values == {value(i) : i \in numbers}
  IN [found |-> matched # {},
      min |-> IF numbers # matched \/ numbers = {} THEN NaN ELSE JNum(Min(values)),
      max |-> IF numbers = {} THEN NaN ELSE JNum(Max(values)),
      avg |-> IF numbers # matched \/ numbers = {} THEN NaN
              ELSE JNum(RoundDiv(SumOf({<<i, value(i)>> : i \in numbers}),
                                 Cardinality(numbers))),
      count |-> Cardinality(matched)]

\* data['min'] < low, data['max'] > high: a comparison with NaN is False
Below(x, low) == x # NaN /\ x.v < low

Above(x, high) == x # NaN /\ x.v > high

\* a range check that tests the upper bound only when the lower one holds
OneAlertPerField(field, data) ==
  IF ~data.found THEN <<>>
  ELSE IF field = "temperature" THEN
    (IF Below(data.min, THRESHOLDS.temperature_min)
     THEN <<Alert("Temperature below", field, data.min.v)>>
     ELSE IF Above(data.max, THRESHOLDS.temperature_max)
     THEN <<Alert("Temperature above", field, data.max.v)>> ELSE <<>>)
  ELSE IF field = "pression" THEN
    (IF Below(data.min, THRESHOLDS.pressure_min)
     THEN <<Alert("Pressure below", field, data.min.v)>>
     ELSE IF Above(data.max, THRESHOLDS.pressure_max)
     THEN <<Alert("Pressure above", field, data.max.v)>> ELSE <<>>)
  ELSE <<>>

RangeAlerts(field, data) ==
  IF ~data.found THEN <<>>
  ELSE IF field = "temperature" THEN
    (IF Below(data.min, THRESHOLDS.temperature_min)
     THEN <<Alert("Temperature below", field, data.min.v)>> ELSE <<>>)
    \o (IF Above(data.max, THRESHOLDS.temperature_max)
        THEN <<Alert("Temperature above", field, data.max.v)>> ELSE <<>>)
  ELSE IF field = "pression" THEN
    (IF Below(data.min, THRESHOLDS.pressure_min)
     THEN <<Alert("Pressure below", field, data.min.v)>> ELSE <<>>)
    \o (IF Above(data.max, THRESHOLDS.pressure_max)
        THEN <<Alert("Pressure above", field, data.max.v)>> ELSE <<>>)
  ELSE <<>>

RangeFields == <<"temperature", "pression", "humidite">>

\* _check_data_ranges
check_data_ranges(coll) ==
  LET data == [i \in 1..3 |-> RangeOf(coll, RangeFields[i])] IN
  [result |-> data,
   alerts |-> RangeAlerts(RangeFields[1], data[1]) \o RangeAlerts(RangeFields[2], data[2])
              \o RangeAlerts(RangeFields[3], data[3])]

NullRateFields ==
  <<"temperature", "pression", "humidite", "vent_moyen", "vent_rafales",
    "pluie_1h", "visibilite", "nebulosite">>

\* _check_null_percentages
check_null_percentages(coll, total_count) ==
  LET rates == [i \in 1..Len(NullRateFields) |->
                  [field |-> NullRateFields[i],
                   count |-> NullCount(coll, NullRateFields[i]),
                   percentage |-> Percentage(NullCount(coll, NullRateFields[i]), total_count)]]
      high(r) == r.percentage > THRESHOLDS.max_null_percentage
      worded(list) == [i \in 1..Len(list) |->
                         Alert("High null rate for", list[i].field, list[i].percentage)]
  IN [result |-> rates, alerts |-> worded(SelectSeq(rates, high))]

\* distinct(field): the values of the documents that have the field
Distinct(coll, field) ==
  {coll[i][field] : i \in {j \in 1..Len(coll) : field \in DOMAIN coll[j]}}

\* _check_unique_values: it appends no alert
check_unique_values(coll, cities, schema) ==
  [result |-> [unique_stations |-> Cardinality(Distinct(coll, "id_station")),
               unique_sources |-> Cardinality(Distinct(coll, "_source")),
               unique_cities |-> Len(cities),
               schema_fields |-> Len(schema)],
   alerts |-> <<>>]

\* {'$type': ...} of a stored value
BsonType(x) ==
  CASE x.t = "str" -> "string"
    [] x.t = "int" -> "int"
    [] x.t \in {"num", "nan"} -> "double"
    [] x.t = "arr" -> "array"
    [] OTHER -> "null"

\* the $match {'$exists': True} and $group by $type of _check_type_consistency
TypesOf(coll, field) == {BsonType(x) : x \in Distinct(coll, field)}

\* _check_type_consistency
check_type_consistency(coll) ==
  LET station_types == TypesOf(coll, "id_station") IN
  [result |-> [temperature_types |-> TypesOf(coll, "temperature"),
               station_types |-> station_types],
   alerts |-> IF Cardinality(station_types) > 1
                 \/ (Cardinality(station_types) = 1 /\ station_types # {"string"})
              THEN <<Alert("Non-string id_station values detected", "", 0)>>
              ELSE <<>>]

\* the characters of the timestamps, in code point order
CodeOrder ==
  <<" ", "-", ".">> \o DigitChars \o <<":">> \o UpperChars \o <<"_">> \o LowerChars

CodeOf(c) == CHOOSE i \in 1..Len(CodeOrder) : CodeOrder[i] = c

\* the order of strings of $min and $max: by code point, a prefix first
RECURSIVE StrLeq(_, _)
StrLeq(a, b) ==
  IF a = <<>> THEN TRUE
  ELSE IF b = <<>> THEN FALSE
  ELSE IF Head(a) # Head(b) THEN CodeOf(Head(a)) < CodeOf(Head(b))
  ELSE StrLeq(Tail(a), Tail(b))

\* $min and $max of the strings list[lo..hi]
RECURSIVE StrMin(_, _, _)
StrMin(list, lo, hi) ==
  IF lo = hi THEN list[lo]
  ELSE LET mid == (lo + hi) \div 2
           a == StrMin(list, lo, mid)
           b == StrMin(list, mid + 1, hi)
       IN IF StrLeq(a, b) THEN a ELSE b

RECURSIVE StrMax(_, _, _)
StrMax(list, lo, hi) ==
  IF lo = hi THEN list[lo]
  ELSE LET mid == (lo + hi) \div 2
           a == StrMax(list, lo, mid)
           b == StrMax(list, mid + 1, hi)
       IN IF StrLeq(a, b) THEN b ELSE a

RECURSIVE DaysBefore(_, _)
DaysBefore(year, month) ==
  IF month = 1 THEN 0 ELSE DaysBefore(year, month - 1) + DaysInMonth(year, month - 1)

\* date.toordinal()
Ordinal(year, month, day) ==
  LET y == year - 1 IN
  365 * y + (y \div 4) - (y \div 100) + (y \div 400) + DaysBefore(year, month) + day

\* date_parser.parse(s) of a stored timestamp: the strict form with fields of the
\* calendar gives a datetime (its day and its second of the day), text it does not
\* recognise raises
date_parser_parse(s) ==
  IF ~IsStrictTimestamp(s) THEN [ok |-> FALSE]
  ELSE LET year == ToNat(SubSeq(s, 1, 4))
           month == ToNat(SubSeq(s, 6, 7))
           day == ToNat(SubSeq(s, 9, 10))
           hour == ToNat(SubSeq(s, 12, 13))
           minute == ToNat(SubSeq(s, 15, 16))
           second == ToNat(SubSeq(s, 18, 19))
       IN IF year < 1 \/ month \notin 1..12 \/ hour > 23 \/ minute > 59 \/ second > 59
          THEN [ok |-> FALSE]
          ELSE IF day < 1 \/ day > DaysInMonth(year, month) THEN [ok |-> FALSE]
          ELSE [ok |-> TRUE, day |-> Ordinal(year, month, day),
                second |-> 3600 * hour + 60 * minute + second]

\* (max_dt - min_dt).days: the whole days of the difference, rounded down
DaysBetween(min_dt, max_dt) ==
  (max_dt.day - min_dt.day) - (IF max_dt.second < min_dt.second THEN 1 ELSE 0)

\* the $group of _check_date_coverage over stored timestamps that are strings or
\* null: $min and $max skip null and absent values, $addToSet skips absent ones
DateStats(coll) ==
  LET dated(doc) == Get(doc, "dh_utc").t = "str"
      docs == SelectSeq(coll, dated)
      dates == [i \in 1..Len(docs) |-> docs[i]["dh_utc"].v]
  IN [min_date |-> IF docs = <<>> THEN JNull ELSE JStr(StrMin(dates, 1, Len(dates))),
      max_date |-> IF docs = <<>> THEN JNull ELSE JStr(StrMax(dates, 1, Len(dates))),
      date_count |-> Cardinality(Distinct(coll, "dh_utc"))]

\* a date coverage check that answers ERROR for every failure
ErrorOnAnyFailure(coll, aggregated) ==
  IF aggregated /\ coll # <<>> /\ DateStats(coll).min_date \notin {JNull, JStr(<<>>)}
     /\ date_parser_parse(DateStats(coll).min_date.v).ok
     /\ date_parser_parse(DateStats(coll).max_date.v).ok
  THEN [status |-> "PASS", reason |-> "Date coverage", total_days |-> 1,
        unique_dates |-> 1, coverage_percentage |-> 10000]
  ELSE [status |-> "ERROR", reason |-> "Aggregation failed"]

\* _check_date_coverage: an aggregation that raises is caught by the outer try, a
\* timestamp that does not parse by the inner one
check_date_coverage(coll, aggregated) ==
  IF ~aggregated THEN [status |-> "ERROR", reason |-> "Aggregation failed"]
  ELSE CHOOSE result \in
    {IF coll = <<>> \/ date_stats.min_date = JNull \/ date_stats.min_date = JStr(<<>>)
     THEN [status |-> "WARN", reason |-> "No date data or aggregation failed",
           coverage_percentage |-> 0]
     ELSE LET min_dt == date_parser_parse(date_stats.min_date.v)
              max_dt == date_parser_parse(date_stats.max_date.v)
          IN IF ~min_dt.ok \/ ~max_dt.ok
             THEN [status |-> "WARN", reason |-> "Date parsing failed",
                   coverage_percentage |-> 0]
             ELSE LET total_days == DaysBetween(min_dt, max_dt) + 1
                      actual_days == date_stats.date_count
                  IN [status |-> IF total_days > 0 /\ actual_days * 100 >= 95 * total_days
                                 THEN "PASS" ELSE "WARN",
                      reason |-> "Date coverage",
                      total_days |-> total_days,
                      unique_dates |-> actual_days,
                      coverage_percentage |-> IF total_days > 0
                                              THEN Percentage(actual_days, total_days)
                                              ELSE 0] :
     date_stats \in {DateStats(coll)}} : TRUE

\* the seven checks of run_all_checks, in the order of its calls
Battery(coll, cities, schema, aggregated) ==
  LET duplicates == check_duplicates(coll) IN
  <<[name |-> "missing_required_fields", run |-> check_missing_fields(coll, Len(coll))],
    [name |-> "duplicates",
     run |-> [result |-> duplicates, alerts |-> DuplicateAlerts(duplicates)]],
    [name |-> "data_ranges", run |-> check_data_ranges(coll)],
    [name |-> "null_percentages", run |-> check_null_percentages(coll, Len(coll))],
    [name |-> "unique_values", run |-> check_unique_values(coll, cities, schema)],
    [name |-> "type_consistency", run |-> check_type_consistency(coll)],
    [name |-> "date_coverage", run |-> [result |-> check_date_coverage(coll, aggregated), alerts |-> <<>>]]>>

\* an alerts list to which each check prepends its alerts
RECURSIVE AlertsPrepended(_)
AlertsPrepended(checks) ==
  IF checks = <<>> THEN <<>>
  ELSE AlertsPrepended(Tail(checks)) \o Head(checks).run.alerts

\* self.alerts after the checks: each check appends its alerts as it runs
RECURSIVE AlertsOf(_)
AlertsOf(checks) ==
  IF checks = <<>> THEN <<>> ELSE Head(checks).run.alerts \o AlertsOf(Tail(checks))

\* run_all_checks of a checker whose self.alerts holds self_alerts: the report it
\* returns, or the exception that leaves it when the store query of one of the first
\* six checks raises, and self.alerts afterwards.  The checks of the report are in
\* the order they were entered; its alerts are self.alerts itself
run_all_checks(self_alerts, coll, cities, schema, t, aggregated, raising) ==
  LET counts == [observations_total |-> Len(coll), stations_total |-> Len(cities),
                 schema_metadata_total |-> Len(schema)]
  IN IF coll = <<>>
     THEN [report |-> [timestamp |-> t, collections |-> counts, checks |-> <<>>,
                       alerts |-> <<>>],
           alerts |-> self_alerts]
     ELSE CHOOSE call \in
       {IF raising # 0
        THEN [report |-> Raised("PyMongoError"),
              alerts |-> self_alerts \o AlertsOf(SubSeq(battery, 1, raising - 1))]
        ELSE [report |-> [timestamp |-> t, collections |-> counts,
                          checks |-> [i \in 1..Len(battery) |->
                                        [name |-> battery[i].name,
                                         result |-> battery[i].run.result]],
                          alerts |-> self_alerts \o AlertsOf(battery)],
              alerts |-> self_alerts \o AlertsOf(battery)] :
        battery \in {Battery(coll, cities, schema, aggregated)}} : TRUE

\* a report that run_all_checks returned, not an exception
IsReport(r) == "checks" \in DOMAIN r

\* a checker that clears the schema metadata it has counted
RunAllChecksClearing ==
  LET call == run_all_checks(<<>>, observations, stations, schema_metadata, now,
                             serving, failing) IN
  /\ report' = call.report
  /\ alerts' = call.alerts
  /\ returned' = IF IsReport(call.report) THEN <<call.report>> ELSE <<>>
  /\ schema_metadata' = <<>>
  /\ UNCHANGED <<observations, stations, stations_cache, stats, now, jsonl, handlers, serving, main, failing, runs, pc, pending>>

\* main(): quality_checker = DataQualityChecker(db), whose alerts list is empty, then
\* quality_report = quality_checker.run_all_checks()
RunAllChecks ==
  LET call == run_all_checks(<<>>, observations, stations, schema_metadata, now,
                             serving, failing) IN
  /\ report' = call.report
  /\ alerts' = call.alerts
  /\ returned' = IF IsReport(call.report) THEN <<call.report>> ELSE <<>>
  /\ UNCHANGED <<observations, stations, stations_cache, stats, now, jsonl, handlers, serving, main, failing, schema_metadata, runs, pc, pending>>

MaxCalls == 2

\* a checker that empties its alerts list at each call
RunAgainFromEmpty ==
  LET call == run_all_checks(<<>>, observations, stations, schema_metadata, now,
                             serving, failing) IN
  /\ returned # <<>>
  /\ Len(returned) < MaxCalls
  /\ report' = call.report
  /\ alerts' = call.alerts
  /\ returned' = IF IsReport(call.report) THEN Append(returned, call.report) ELSE returned
  /\ UNCHANGED <<observations, stations, stations_cache, stats, now, jsonl, handlers, serving, main, failing, schema_metadata, runs, pc, pending>>

\* a further run_all_checks call on the same checker: the alerts of the reports it
\* returned for a populated store are its self.alerts list, which the call appends to
RunAgain ==
  LET call == run_all_checks(alerts, observations, stations, schema_metadata, now,
                             serving, failing)
      aliased(r) == IF r.checks = <<>> THEN r ELSE [r EXCEPT !.alerts = call.alerts]
      earlier == [i \in 1..Len(returned) |-> aliased(returned[i])]
  IN /\ returned # <<>>
     /\ Len(returned) < MaxCalls
     /\ report' = call.report
     /\ alerts' = call.alerts
     /\ returned' = IF IsReport(call.report) THEN Append(earlier, call.report) ELSE earlier
     /\ UNCHANGED <<observations, stations, stations_cache, stats, now, jsonl, handlers, serving, main, failing, schema_metadata, runs, pc, pending>>

(***************************************************************************)
(* The stores the checker is run on                                        *)
(***************************************************************************)
MaxDocs == 200
MaxDay == 4

\* "2024-10-DDTHH:00:00Z"
Stamp(day, hour) ==
  <<"2", "0", "2", "4", "-", "1", "0", "-">> \o Pad2(day) \o <<"T">> \o Pad2(hour)
  \o <<":", "0", "0", ":", "0", "0", "Z">>

StationB == <<"S", "2">>

\* an observation with its key only
Keyed(id, dh) == MkObj([id_station |-> id, dh_utc |-> dh])

\* an observation with every measurement
Measured(id, dh, temperature, pression) ==
  MkObj([id_station |-> id, dh_utc |-> dh, temperature |-> temperature,
         pression |-> pression, humidite |-> JInt(50), vent_moyen |-> JNum(1000),
         vent_rafales |-> JNum(2000), pluie_1h |-> JInt(0), visibilite |-> JInt(10000),
         nebulosite |-> JInt(4)])

\* total observations of one station, the first copies of them with one timestamp,
\* the others an hour apart
Crowd(total, copies) ==
  [i \in 1..total |->
     Keyed(JStr(S1), JStr(IF i <= copies THEN Stamp(1, 0)
                            ELSE Stamp(1 + ((i - 1) \div 24), (i - 1) % 24)))]

Crowds ==
  {Crowd(total, copies) : total \in {3, 10} \cup ((MaxDocs - 2)..(MaxDocs + 1)),
                          copies \in 1..3}

\* one observation for each hour of each day, in the order of the days
RECURSIVE Calendar(_, _)
Calendar(days, hours) ==
  IF days = {} THEN <<>>
  ELSE LET day == Min(days) IN
       IF hours[day] = {} THEN Calendar(days \ {day}, hours)
       ELSE <<Keyed(JStr(S1), JStr(Stamp(day, Min(hours[day]))))>>
            \o Calendar(days, [hours EXCEPT ![day] = @ \ {Min(hours[day])}])

Hours == {0, 12, 23}

\* observations at midnight on some of the days
Midnights ==
  {Calendar(days, [d \in 1..MaxDay |-> {0}]) : days \in SUBSET (1..MaxDay) \ {{}}}

\* observations on days 1, 2 and 4, at one time or more of each of them
Days124 ==
  {Calendar({1, 2, 4}, [d \in 1..4 |-> IF d = 1 THEN h1 ELSE IF d = 2 THEN h2 ELSE h4]) :
     h1 \in SUBSET Hours \ {{}}, h2 \in {{0}, {12, 23}}, h4 \in {{0}, {23}, {0, 12}}}

\* two stations reporting at the same times, and an observation stored twice
Days124Shared ==
  {Calendar({1, 2, 4}, [d \in 1..4 |-> {0}])
     \o <<Keyed(JStr(id), JStr(Stamp(day, 0)))>> : id \in {S1, StationB}, day \in {1, 2, 4}}

\* twenty days with some of them missing
Days20 ==
  {Calendar((1..20) \ missing, [d \in 1..20 |-> {0}]) : missing \in {{}, {7}, {7, 8}}}

\* timestamps that are absent, null, empty or not dates
OddDates ==
  {<<Keyed(JStr(S1), dh)>> :
     dh \in {Absent, JNull, JStr(<<>>), JStr(TSweak), JStr(TSbad)}}
  \cup {<<Keyed(JStr(S1), JStr(TS1)), Keyed(JStr(S1), dh)>> :
          dh \in {Absent, JNull, JStr(TSweak), JStr(TSbad), JStr(<<"0">> \o TSbad)}}

\* measurements and stations that raise alerts
Extremes ==
  {<<Measured(id, JStr(TS1), temperature, pression),
     Measured(JStr(S1), JStr(TS1), JNum(1550), JInt(1013))>> :
     id \in {JStr(S1), JNull, JInt(7)},
     temperature \in {JNum(1550), JNum(0 - 5010), JInt(61), JNull},
     pression \in {JInt(1013), JNum(89990), JInt(1051)}}

\* two observations with measurements on, within and beyond the bounds of the
\* range check, and one whose temperature is a text
OnBounds ==
  {<<[Measured(JStr(S1), JStr(TS1), low[1], low[2]) EXCEPT !["humidite"] = humidite],
     Measured(JStr(S1), JStr(TS2), high[1], high[2])>> :
     low \in {<<JNum(0 - 5001), JNum(89999)>>, <<JNum(0 - 5000), JInt(900)>>,
              <<JNum(0 - 5001), JInt(900)>>, <<JStr(<<"9", "9">>), JNum(89999)>>},
     high \in {<<JNum(6001), JNum(105001)>>, <<JInt(60), JInt(1050)>>,
               <<JInt(60), JNum(105001)>>, <<JNum(6001), JInt(1050)>>},
     humidite \in {JInt(50), JInt(150), JNum(0 - 500)}}

QualityStores ==
  {<<>>} \cup Crowds \cup Midnights \cup Days124 \cup Days124Shared \cup Days20
  \cup OddDates \cup Extremes \cup OnBounds

InitQuality ==
  /\ observations \in QualityStores
  /\ stations = <<>>
  /\ stations_cache = {}
  /\ stats = ZeroStats
  /\ now = 0
  /\ jsonl = <<>>
  /\ handlers = <<>>
  /\ report = NoReport
  /\ serving \in BOOLEAN
  /\ main = NoMain
  /\ failing = 0
  /\ alerts = <<>>
  /\ returned = <<>>
  /\ schema_metadata = <<>>
  /\ runs = <<>>
  /\ pc = [w \in Writers |-> "idle"]
  /\ pending = [w \in Writers |-> <<>>]

NextQuality ==
  \/ RunAllChecks
  \/ Tick

SpecQuality == InitQuality /\ [][NextQuality]_vars

\* the stores of a checker that is called more than once, and whose store queries
\* may raise: failing names the check (1 to 6) whose query raises, 0 for none
ReuseStores == {<<>>} \cup OddDates \cup Extremes \cup OnBounds

SchemaStores == {<<>>, load_schema_metadata(<<>>, CoreMetadata, 0).coll}

InitReuse ==
  /\ observations \in ReuseStores
  /\ stations = <<>>
  /\ stations_cache = {}
  /\ stats = ZeroStats
  /\ now = 0
  /\ jsonl = <<>>
  /\ handlers = <<>>
  /\ report = NoReport
  /\ serving \in BOOLEAN
  /\ main = NoMain
  /\ failing \in 0..6
  /\ failing # 0 => serving
  /\ alerts = <<>>
  /\ returned = <<>>
  /\ schema_metadata \in SchemaStores
  /\ runs = <<>>
  /\ pc = [w \in Writers |-> "idle"]
  /\ pending = [w \in Writers |-> <<>>]

NextReuse ==
  \/ RunAllChecks
  \/ RunAgain
  \/ Tick

SpecReuse == InitReuse /\ [][NextReuse]_vars

(***************************************************************************)
(* SpecMain: runs of the two programs, one after the other, step by step.  *)
(* main.events holds what went wrong in the run: "connect" (the store is   *)
(* not reached), "create" (the collections are not created), "config" (the *)
(* configuration file is not loaded), "file" (a file is not read),         *)
(* "record" (a line or record of a file is skipped or in error), "check"   *)
(* (the aggregation of the date coverage check fails), "query" (a store    *)
(* query of the checker raises), "save" (the report is not written).       *)
(***************************************************************************)
MaxFiles == 2
MaxMains == 2

Exited == main.step \in {"exit 0", "exit 1"}

At(program, step) == main.program = program /\ main.step = step

\* sys.exit(1) after the event
Exit1(event) == [main EXCEPT !.step = "exit 1", !.events = @ \cup {event}]

\* python mongo_loader.py or python quality_checker.py
StartMain(program) ==
  /\ main.step = "none" \/ Exited
  /\ main.started < MaxMains
  /\ main' = [NoMain EXCEPT !.program = program, !.step = "connect",
                            !.started = main.started + 1]
  /\ UNCHANGED <<observations, stations, stations_cache, stats, now, jsonl, handlers, report, serving, failing, alerts, returned, schema_metadata, runs, pc, pending>>

\* if not connection.connect(): sys.exit(1)
Connect(connected) ==
  /\ main.step = "connect"
  /\ main' = IF ~connected THEN Exit1("connect")
             ELSE [main EXCEPT !.step = IF main.program = "loader" THEN "create" ELSE "checks"]
  /\ UNCHANGED <<observations, stations, stations_cache, stats, now, jsonl, handlers, report, serving, failing, alerts, returned, schema_metadata, runs, pc, pending>>

\* if not schema_mgr.create_collections(drop_existing=args.drop_collections):
\* sys.exit(1); an OperationFailure makes it return False (here before any drop)
CreateCollections(created, drop_existing) ==
  /\ At("loader", "create")
  /\ main' = IF created THEN [main EXCEPT !.step = "schema"] ELSE Exit1("create")
  /\ observations' = IF created /\ drop_existing THEN <<>> ELSE observations
  /\ stations' = IF created /\ drop_existing THEN <<>> ELSE stations
  /\ schema_metadata' = IF created /\ drop_existing THEN <<>> ELSE schema_metadata
  /\ UNCHANGED <<stations_cache, stats, now, jsonl, handlers, report, serving, failing, alerts, returned, runs, pc, pending>>

\* a loader that gives up when the configuration file cannot be loaded
ExitOnConfigFailure(loaded) ==
  LET count == load_schema_metadata(schema_metadata, CoreMetadata, now) IN
  /\ At("loader", "schema")
  /\ schema_metadata' = IF loaded THEN count.coll ELSE schema_metadata
  /\ stations_cache' = {}
  /\ main' = IF loaded
             THEN [main EXCEPT !.step = "list",
                               !.total = [ZeroStats EXCEPT !.schema_records_inserted = count.count]]
             ELSE Exit1("config")
  /\ UNCHANGED <<observations, stations, stats, now, jsonl, handlers, report, serving, failing, alerts, returned, runs, pc, pending>>

\* STEP 3 of the loader: output_metadata is that of the configuration file, or {}
\* when the file cannot be loaded (the exception is logged as a warning); then
\* loader = DataLoader(db, DataValidator()) and loader.load_schema_metadata
LoadSchemaStep(loaded) ==
  LET output_metadata == IF loaded THEN CoreMetadata ELSE <<>>
      count == load_schema_metadata(schema_metadata, output_metadata, now)
  IN /\ At("loader", "schema")
     /\ schema_metadata' = count.coll
     /\ stations_cache' = {}
     /\ main' = [main EXCEPT !.step = "list",
                             !.events = IF loaded THEN @ ELSE @ \cup {"config"},
                             !.total = [ZeroStats EXCEPT !.schema_records_inserted = count.count]]
     /\ UNCHANGED <<observations, stations, stats, now, jsonl, handlers, report, serving, failing, alerts, returned, runs, pc, pending>>

\* jsonl_files = data_source.list_files(...): n files, none when the directory is
\* missing or the listing fails
ListFiles(n) ==
  /\ At("loader", "list")
  /\ main' = [main EXCEPT !.step = "files", !.left = n]
  /\ UNCHANGED <<observations, stations, stations_cache, stats, now, jsonl, handlers, report, serving, failing, alerts, returned, schema_metadata, runs, pc, pending>>

\* for key in total_stats: total_stats[key] += stats.get(key, 0)
AddStats(total_stats, counters) == [key \in DOMAIN total_stats |-> total_stats[key] + counters[key]]

\* the body of the loop over the files: a file that cannot be read is logged and
\* the loop goes on
LoadFile(content, readable) ==
  /\ At("loader", "files")
  /\ main.left > 0
  /\ \E R \in {load_jsonl_data(observations, stations, stations_cache, content, SourceName, now)} :
       /\ observations' = IF readable THEN R.observations ELSE observations
       /\ stations' = IF readable THEN R.stations ELSE stations
       /\ stations_cache' = IF readable THEN R.stations_cache ELSE stations_cache
       /\ stats' = IF readable THEN R.stats ELSE stats
       /\ main' = [main EXCEPT
                     !.left = @ - 1,
                     !.total = IF readable THEN AddStats(@, R.stats) ELSE @,
                     !.events = IF ~readable THEN @ \cup {"file"}
                                ELSE IF R.stats.skipped + R.stats.errors > 0
                                THEN @ \cup {"record"} ELSE @]
  /\ UNCHANGED <<now, jsonl, handlers, report, serving, failing, alerts, returned, schema_metadata, runs, pc, pending>>

\* quality_checker = DataQualityChecker(db); quality_report =
\* quality_checker.run_all_checks(): an exception leaves the try block of main
RunChecks ==
  /\ At("checker", "checks")
  /\ \E call \in {run_all_checks(<<>>, observations, stations, schema_metadata, now,
                                  serving, failing)} :
       /\ report' = call.report
       /\ alerts' = call.alerts
       /\ returned' = IF IsReport(call.report) THEN <<call.report>> ELSE <<>>
       /\ main' = IF ~IsReport(call.report) THEN Exit1("query")
                  ELSE [main EXCEPT !.step = "report",
                                    !.events = IF observations # <<>> /\ ~serving
                                               THEN @ \cup {"check"} ELSE @]
  /\ UNCHANGED <<observations, stations, stations_cache, stats, now, jsonl, handlers, serving, failing, schema_metadata, runs, pc, pending>>

\* report = report_gen.generate_report(...); report_gen.save_report(report,
\* args.report_file); logger.info(report); sys.exit(0).  An exception of save_report
\* is caught by the except clause of main: sys.exit(1)
Report(saved) ==
  /\ \/ At("loader", "files") /\ main.left = 0
     \/ At("checker", "report")
  /\ main' = IF saved THEN [main EXCEPT !.step = "exit 0", !.reported = TRUE]
             ELSE Exit1("save")
  /\ UNCHANGED <<observations, stations, stations_cache, stats, now, jsonl, handlers, report, serving, failing, alerts, returned, schema_metadata, runs, pc, pending>>

InitMain ==
  /\ observations = <<>>
  /\ stations = <<>>
  /\ stations_cache = {}
  /\ stats = ZeroStats
  /\ now = 0
  /\ jsonl = <<>>
  /\ handlers = <<>>
  /\ report = NoReport
  /\ serving \in BOOLEAN
  /\ main = NoMain
  /\ failing \in 0..6
  /\ failing # 0 => serving
  /\ alerts = <<>>
  /\ returned = <<>>
  /\ schema_metadata = <<>>
  /\ runs = <<>>
  /\ pc = [w \in Writers |-> "idle"]
  /\ pending = [w \in Writers |-> <<>>]

\* the steps of a started run
MainStep ==
  \/ \E connected \in BOOLEAN : Connect(connected)
  \/ \E created \in BOOLEAN, drop_existing \in BOOLEAN : CreateCollections(created, drop_existing)
  \/ \E loaded \in BOOLEAN : LoadSchemaStep(loaded)
  \/ \E n \in 0..MaxFiles : ListFiles(n)
  \/ \E line \in CoreLines, readable \in BOOLEAN : LoadFile(<<line>>, readable)
  \/ RunChecks
  \/ \E saved \in BOOLEAN : Report(saved)

NextMain ==
  \/ \E program \in {"loader", "checker"} : StartMain(program)
  \/ MainStep

SpecMain == InitMain /\ [][NextMain]_vars

\* a started program runs on: each of its steps returns (the connection attempt
\* times out after serverSelectionTimeoutMS, the loops are over finite lists)
SpecMainFair == SpecMain /\ WF_vars(MainStep)

(***************************************************************************)
(* Claims                                                                  *)
(***************************************************************************)
\* a collection without the _ingestion_timestamp of its documents
Forget(coll) ==
  [i \in 1..Len(coll) |-> [k \in DOMAIN coll[i] \ {"_ingestion_timestamp"} |-> coll[i][k]]]

\* the clock values of a second load: at once, or as late as can be
Later(t) == {t, MaxClock}

\* the same loader loading content at clock value t, from the state reached
Load(content, t) ==
  load_jsonl_data(observations, stations, stations_cache, content, SourceName, t)

\* the same loader loading content again at clock value t, after a load that ended in R
Reload(R, content, t) ==
  load_jsonl_data(R.observations, R.stations, R.stations_cache, content, SourceName, t)

\* the _insert_observation calls of a log
ObsCalls(log) == {i \in 1..Len(log) : log[i].op = "observation"}

\* the number of _insert_observation calls of a load that gave result for key
Classified(log, key, result) ==
  Cardinality({i \in ObsCalls(log) : ObsKey(log[i].record) = key /\ log[i].result = result})

LogKeys(log) == {ObsKey(log[i].record) : i \in ObsCalls(log)}

\* the first load and the second are of the same content
Replayed == Len(runs) >= 2 /\ runs[2].content = runs[1].content

\* C1: from every store state reached and for every file, loading the file twice
\* in succession leaves the stations and the observations as loading it once
\* does, the _ingestion_timestamp of the observations apart.
C1_LoadTwiceAsOnce ==
  \A content \in Files :
    \A R1 \in {Load(content, now)} :
      \A t2 \in Later(now) :
        \A R2 \in {Reload(R1, content, t2)} :
          /\ Forget(R2.observations) = Forget(R1.observations)
          /\ R2.stations = R1.stations

\* C1 witness: the bulk line with a station and an observation has been loaded, and
\* loaded again at a later time by the same loader: the last load updated both
\* and inserted nothing.
C1_Witness ==
  /\ stats.stations_updated = 1 /\ stats.stations_inserted = 0
  /\ stats.observations_updated = 1 /\ stats.observations_inserted = 0
  /\ stats.skipped = 1
  /\ Len(observations) = 1
  /\ observations[1]["_ingestion_timestamp"] = JStr(isoformat(1))
  /\ stations = <<Station(JStr(S1), JStr(N1))>>

\* C2 as stated: a file loaded twice into the empty store: per key, the number of
\* records the first load classifies 'inserted' equals the number the second load
\* classifies 'updated', and the second load inserts nothing.
C2_InsertedEqualsUpdated ==
  Replayed =>
    /\ \A key \in LogKeys(runs[1].log) :
         Classified(runs[1].log, key, "inserted") = Classified(runs[2].log, key, "updated")
    /\ runs[2].stats.observations_inserted = 0

\* C2 amended: a file loaded twice into the empty store: the second load inserts
\* nothing and classifies a key 'updated' once for every record of the key that the
\* first load wrote, that is the first load's 'inserted' (at most one per key) plus
\* its 'updated'.
C2_SecondLoadUpdatesAll ==
  Replayed =>
    /\ \A key \in LogKeys(runs[1].log) :
         /\ Classified(runs[2].log, key, "updated") =
              Classified(runs[1].log, key, "inserted") + Classified(runs[1].log, key, "updated")
         /\ Classified(runs[1].log, key, "inserted") <= 1
         /\ Classified(runs[2].log, key, "inserted") = 0
    /\ runs[2].stats.observations_inserted = 0

\* C2 witness: a file with two records of one key has been loaded twice: the first
\* load inserted the key once and updated it once, the second updated it twice.
C2_Witness ==
  /\ Replayed
  /\ runs[1].stats.observations_inserted = 1 /\ runs[1].stats.observations_updated = 1
  /\ runs[2].stats.observations_inserted = 0 /\ runs[2].stats.observations_updated = 2

(***************************************************************************)
(* The history of SpecRuns read as one sequence of calls                   *)
(***************************************************************************)
\* every call of every load so far, in order, each with the number of its load
RECURSIVE CallsFrom(_)
CallsFrom(n) ==
  IF n > Len(runs) THEN <<>>
  ELSE [i \in 1..Len(runs[n].log) |->
          [run |-> n, op |-> runs[n].log[i].op, record |-> runs[n].log[i].record,
           result |-> runs[n].log[i].result]] \o CallsFrom(n + 1)

Calls == CallsFrom(1)

\* the _insert_observation calls that wrote their record
ObsWrites(calls) ==
  {i \in 1..Len(calls) : calls[i].op = "observation" /\ calls[i].result \in {"inserted", "updated"}}

\* the stored observation of a key
ObsDoc(key) == observations[CHOOSE i \in 1..Len(observations) : ObsKey(observations[i]) = key]

C4_OneDocumentPerKey ==
  /\ \A i \in 1..Len(observations) : \A j \in 1..Len(observations) :
       ObsKey(observations[i]) = ObsKey(observations[j]) => i = j
  /\ observations # <<>> => check_duplicates(observations).count = 0

\* C4 witness: the collection holds the documents of two keys and the last load
\* wrote a key that was already stored.
C4_Witness ==
  /\ Len(observations) = 2
  /\ stats.observations_updated = 2
  /\ stats.observations_inserted = 0

\* the measurement fields of a document or record
Measurements(doc) == [f \in DOMAIN doc \cap ModelMeasurementFields |-> doc[f]]

\* C5: when no write is under way, every key the two runs have written has exactly
\* one document in the store, and the measurement fields of the document are those
\* of a single one of the records written.
C5_LastWriterWins ==
  (\A w \in Writers : pc[w] = "idle") =>
    \A i \in 1..Len(observations) :
      /\ \A j \in 1..Len(observations) : ObsKey(observations[j]) = ObsKey(observations[i]) => j = i
      /\ \E obs \in ConcRecords :
           ObsKey(obs) = ObsKey(observations[i]) /\ Measurements(obs) = Measurements(observations[i])

(***************************************************************************)
(* Stations                                                                 *)
(***************************************************************************)
\* the _upsert_station calls with a valid record of identifier id
StationCalls(calls, id) ==
  {i \in 1..Len(calls) : /\ calls[i].op = "station"
                         /\ calls[i].result # "skipped"
                         /\ Get(calls[i].record, "id_station") = id}

StationIds(calls) ==
  {Get(calls[i].record, "id_station") :
     i \in {k \in 1..Len(calls) : calls[k].op = "station" /\ calls[k].result # "skipped"}}

\* the stored station of an identifier
StationDoc(id) == stations[CHOOSE i \in 1..Len(stations) : Get(stations[i], "id_station") = id]

\* a document carries the field values of a record
Carries(doc, record) == \A f \in DOMAIN record : f \in DOMAIN doc /\ doc[f] = record[f]

\* the calls that reached the store: the first call of an identifier in a load whose
\* loader had not cached the identifier
StationWrites(calls, id) ==
  {i \in StationCalls(calls, id) :
     /\ id \notin runs[calls[i].run].cache
     /\ \A k \in StationCalls(calls, id) : calls[k].run = calls[i].run => i <= k}

Defective(record) ==
  \/ Get(record, "id_station") = JNull
  \/ Get(record, "dh_utc") = JNull
  \/ ~IsStr(Get(record, "dh_utc"))
  \/ ~Contains("T", Get(record, "dh_utc").v)
  \/ ~Contains("Z", Get(record, "dh_utc").v)
  \/ \A f \in ModelMeasurementFields : Get(record, f) = JNull

\* the observation records of the input set that are the one line of a file
SingleObservation(content) ==
  /\ Len(content) = 1
  /\ content[1].kind = "json"
  /\ content[1].data \in ObsRecords

\* C8: a load of one line that is a defective observation record classifies the
\* record 'skipped', returns skipped = 1 and nothing else counted, and leaves the
\* store as it was.
C8_DefectiveIsSkipped ==
  (Len(runs) = 1 /\ SingleObservation(runs[1].content) /\ Defective(runs[1].content[1].data)) =>
    /\ Len(runs[1].log) = 1 /\ runs[1].log[1].result = "skipped"
    /\ runs[1].stats = [ZeroStats EXCEPT !.skipped = 1]
    /\ observations = <<>> /\ stations = <<>>

\* C9: a load of one line that is an observation record with a station identifier and
\* a timestamp holding T and Z: validate_observation accepts the record (the call is
\* not 'skipped') exactly when a measurement field of the data model is non-null.
C9_AcceptedIffMeasured ==
  (/\ Len(runs) = 1
   /\ SingleObservation(runs[1].content)
   /\ Truthy(Get(runs[1].content[1].data, "id_station"))
   /\ IsStr(Get(runs[1].content[1].data, "dh_utc"))
   /\ Contains("T", Get(runs[1].content[1].data, "dh_utc").v)
   /\ Contains("Z", Get(runs[1].content[1].data, "dh_utc").v)) =>
    /\ Len(runs[1].log) = 1
    /\ runs[1].log[1].result # "skipped"
         <=> \E f \in ModelMeasurementFields : Get(runs[1].content[1].data, f) # JNull

(***************************************************************************)
(* Lines and entries that fail                                             *)
(***************************************************************************)
\* a sequence without its i-th element
Without(seq, i) == SubSeq(seq, 1, i - 1) \o SubSeq(seq, i + 1, Len(seq))

\* C11: from every store state reached and for every file with a line that is not
\* valid JSON, loading the file leaves the stations, the observations and the
\* loader's cache as loading the file without that line does, and returns the same
\* stats but for errors, which is greater by one.
C11_InvalidLineOnlyCounted ==
  \A content \in Files :
    \A i \in {k \in 1..Len(content) : content[k].kind = "invalid"} :
      \A R \in {Load(content, now)} :
        \A Q \in {Load(Without(content, i), now)} :
          /\ R.observations = Q.observations
          /\ R.stations = Q.stations
          /\ R.stations_cache = Q.stations_cache
          /\ R.stats = [Q.stats EXCEPT !.errors = @ + 1]

\* a load of a file with a line that is not valid JSON and a line that is an
\* observation has returned: the line counted as an error, the observation inserted
C11_Witness ==
  /\ stats.errors = 1
  /\ stats.observations_inserted = 1
  /\ Len(observations) = 1

\* the entries of a list that are objects, each as the call made for it
ObjectEntries(op, list) ==
  LET objects == SelectSeq(list, IsDict)
  IN [i \in 1..Len(objects) |-> [op |-> op, record |-> objects[i]]]

\* the observation entries of the hourly lists of a bulk line, in order
RECURSIVE HourlyEntries(_)
HourlyEntries(items) ==
  IF items = <<>> THEN <<>>
  ELSE (IF IsList(Head(items).observations) THEN Head(items).observations.v ELSE <<>>)
       \o HourlyEntries(Tail(items))

\* the calls a log records, without their results
CallsMade(log) == [i \in 1..Len(log) |-> [op |-> log[i].op, record |-> log[i].record]]

BulkFile(content) ==
  /\ Len(content) = 1
  /\ content[1].kind = "json"
  /\ {"stations", "hourly"} \subseteq DOMAIN content[1].data

\* C12: a load of one bulk line has called _upsert_station for every station entry
\* that is an object and _insert_observation for every observation entry that is an
\* object, whatever became of the entries before them; and every observation entry
\* that is valid and that the collection accepts is stored under its key.
C12_SiblingsNotBlocked ==
  \A n \in 1..Len(runs) :
    BulkFile(runs[n].content) =>
      LET data == runs[n].content[1].data
          entries == HourlyEntries(data["hourly"])
      IN /\ CallsMade(runs[n].log)
              = ObjectEntries("station", data["stations"]) \o ObjectEntries("observation", entries)
         /\ \A i \in 1..Len(entries) :
              (/\ IsDict(entries[i])
               /\ validate_observation(entries[i]).valid
               /\ ObsSchemaOk(entries[i]))
              => \E d \in 1..Len(observations) : ObsKey(observations[d]) = ObsKey(entries[i])

(***************************************************************************)
(* The batch record of the pipeline                                        *)
(***************************************************************************)
\* the station records of the batch record saved
EmittedStations == IF jsonl = <<>> THEN <<>> ELSE jsonl[1].data.stations

\* C7: once the batch record has been loaded, every station record in it whose
\* identifier is not null is a document of the stations collection, and the load
\* counted a station for it.
C7_EmittedStationsPersisted ==
  Len(runs) >= 1 =>
    \A i \in 1..Len(EmittedStations) :
      EmittedStations[i]["id"] # JNull =>
        /\ \E d \in 1..Len(stations) :
             EmittedStations[i]["id"] \in {Get(stations[d], "id_station"), Get(stations[d], "id")}
        /\ runs[1].stats.stations_inserted + runs[1].stats.stations_updated >= 1

\* C10: every document of the observations collection has an id_station that is not
\* null and a dh_utc that is a string of the form YYYY-MM-DDTHH:MM:SSZ.
C10_PersistedKeysWellFormed ==
  \A i \in 1..Len(observations) :
    /\ Get(observations[i], "id_station") # JNull
    /\ IsStr(Get(observations[i], "dh_utc"))
    /\ IsStrictTimestamp(Get(observations[i], "dh_utc").v)

(***************************************************************************)
(* The merge of the sources                                                *)
(***************************************************************************)
\* results = self.process_all_sources(), in the order of the handlers
ProcessAllSources == [i \in 1..Len(handlers) |-> process(handlers[i])]

\* the stations of all results, in the order merge_sources visits them
RECURSIVE StationsOf(_)
StationsOf(results) ==
  IF results = <<>> THEN <<>> ELSE Head(results).stations \o StationsOf(Tail(results))

\* the stations of a list whose identifier no earlier station of the list has
RECURSIVE FirstSeenFrom(_, _)
FirstSeenFrom(list, k) ==
  IF k > Len(list) THEN <<>>
  ELSE (IF \E j \in 1..(k - 1) : list[j]["id"] = list[k]["id"] THEN <<>> ELSE <<list[k]>>)
       \o FirstSeenFrom(list, k + 1)

\* C13: the stations of the batch record are those of the sources, each identifier
\* once, in order of first occurrence, each record the first one with its identifier.
C13_StationsFirstSeen ==
  jsonl # <<>> =>
    LET merged == jsonl[1].data.stations IN
    /\ \A i \in 1..Len(merged) : \A j \in 1..Len(merged) :
         merged[i]["id"] = merged[j]["id"] => i = j
    /\ merged = FirstSeenFrom(StationsOf(ProcessAllSources), 1)

\* the batch record of two sources has been saved, the first station of the second
\* source having the identifier of the first station of the first with another name
C13_Witness ==
  /\ jsonl # <<>>
  /\ Len(handlers) = 2
  /\ \A R \in {ProcessAllSources} :
       /\ R[1].stations # <<>> /\ R[2].stations # <<>>
       /\ R[1].stations[1]["id"] = R[2].stations[1]["id"]
       /\ R[1].stations[1] # R[2].stations[1]

(***************************************************************************)
(* The filter of empty rows                                                *)
(***************************************************************************)
\* a value that is neither null nor a blank string
Filled(x) == x # JNull /\ (x.t = "str" => Strip(x.v) # <<>>)

\* a row with a value for temperature, pressure, humidity, mean wind, gust, 1h rain
\* or visibility
MeasuredRow(row) ==
  \E f \in {"temperature", "pression", "humidite", "vent_moyen", "vent_rafales",
            "pluie_1h", "visibilite"} : Filled(Get(row, f))

\* C14: the batch record of one source configured with skip_empty_rows holds, for
\* each station of the source, the rows the adapter read for it that have a value
\* for one of the seven fields, in their order, and no other row.
C14_DropsExactlyEmptyRows ==
  (jsonl # <<>> /\ Len(handlers) = 1 /\ handlers[1].skip_empty_rows) =>
    LET before == SourceRead(handlers[1]).hourly
        saved == jsonl[1].data.hourly
    IN /\ Len(saved) = Len(before)
       /\ \A i \in 1..Len(saved) :
            saved[i].observations = JArr(SelectSeq(before[i].observations, MeasuredRow))

(***************************************************************************)
(* The converters of the adapters                                          *)
(***************************************************************************)
\* the sixteen points of the compass, clockwise from north
Clockwise ==
  <<<<"N">>, <<"N", "N", "E">>, <<"N", "E">>, <<"E", "N", "E">>,
    <<"E">>, <<"E", "S", "E">>, <<"S", "E">>, <<"S", "S", "E">>,
    <<"S">>, <<"S", "S", "W">>, <<"S", "W">>, <<"W", "S", "W">>,
    <<"W">>, <<"W", "N", "W">>, <<"N", "W">>, <<"N", "N", "W">>>>

\* the batch record is that of one tabular source that keeps its empty rows
TabularBatch ==
  /\ jsonl # <<>>
  /\ Len(handlers) = 1
  /\ handlers[1].type = "excel"
  /\ ~handlers[1].skip_empty_rows

\* the cell of a column in the one row of the tabular source
Cell(column) == Get(handlers[1].sheets[1].rows[1], column)

\* the row of the batch record made from it
SavedRow == jsonl[1].data.hourly[1].observations.v[1]

\* C15: the vent_direction saved for a Wind cell that holds an abbreviation of the
\* table, in either case and with or without blanks around it, is 22.5 times the
\* clockwise position of the abbreviation from N, a multiple of 22.5 in [0, 337.5];
\* for any other cell (None, the empty string, a blank cell, another text) it is null.
C15_WindDirectionDegrees ==
  TabularBatch =>
    LET cell == Cell("Wind")
        points == IF cell.t = "str"
                  THEN {k \in 1..16 : Clockwise[k] = Upper(Strip(cell.v))} ELSE {}
        saved == SavedRow.vent_direction
    IN IF points = {} THEN saved = JNull
       ELSE /\ saved # JNull
            /\ \A k \in points : Hundredths(saved) = 2250 * (k - 1)
            /\ Hundredths(saved) % 2250 = 0
            /\ Hundredths(saved) >= 0 /\ Hundredths(saved) <= 33750

\* the batch record of a source whose Wind cell is "NNW" has been saved
C15_Witness ==
  /\ TabularBatch
  /\ Cell("Wind") = JStr(<<"N", "N", "W">>)
  /\ SavedRow.vent_direction = JNum(33750)

\* the rows a source holds before any conversion
RECURSIVE RawRowsOf(_)
RawRowsOf(items) ==
  IF items = <<>> THEN <<>>
  ELSE (IF IsList(Head(items).observations) THEN Head(items).observations.v ELSE <<>>)
       \o RawRowsOf(Tail(items))

SourceRows(source) ==
  IF source.type = "excel" THEN source.sheets[1].rows ELSE RawRowsOf(source.data.hourly)

\* what the converters of the source return for a row, each with the input it was
\* given and the tag of its target type
Conversions(source, row) ==
  IF source.type = "excel"
  THEN {[in |-> Get(row, "Temperature"), out |-> fahrenheit_to_celsius(Get(row, "Temperature")), type |-> "num"],
        [in |-> Get(row, "Dew Point"), out |-> fahrenheit_to_celsius(Get(row, "Dew Point")), type |-> "num"],
        [in |-> Get(row, "Speed"), out |-> mph_to_kmh(Get(row, "Speed")), type |-> "num"],
        [in |-> Get(row, "Gust"), out |-> mph_to_kmh(Get(row, "Gust")), type |-> "num"],
        [in |-> Get(row, "Pressure"), out |-> extract_pressure(Get(row, "Pressure")), type |-> "num"],
        [in |-> Get(row, "Precip. Accum."), out |-> extract_precipitation(Get(row, "Precip. Accum.")), type |-> "num"],
        [in |-> Get(row, "Humidity"), out |-> extract_percentage(Get(row, "Humidity")), type |-> "num"]}
  ELSE {[in |-> Get(row, "dh_utc"), out |-> normalize_timestamp(Get(row, "dh_utc")), type |-> "str"],
        [in |-> Get(row, "temperature"), out |-> to_float(Get(row, "temperature")), type |-> "num"],
        [in |-> Get(row, "temps_omm"), out |-> to_int(Get(row, "temps_omm")), type |-> "int"]}

\* null, the empty string, the tokens null and nan in any case
NullToken(x) ==
  \/ x = JNull
  \/ x.t = "str" /\ (x.v = <<>> \/ Lower(x.v) \in {<<"n", "u", "l", "l">>, <<"n", "a", "n">>})

\* the texts of the model that no converter can parse, and the one that is a number
\* and no timestamp
Unparseable(x, type) ==
  \/ x \in {JStr(<<"a", "b", "c">>), JStr(TSbad)}
  \/ type = "str" /\ x = JStr(Nines)

\* C16: for every row of every source of the run, each converter has returned null
\* or a value of its target type and has raised nothing; it has returned null for
\* null, the empty string, the tokens null and nan, and for a text it cannot parse.
C16_ConvertersTotal ==
  jsonl # <<>> =>
    \A h \in 1..Len(handlers) :
      LET rows == SourceRows(handlers[h]) IN
      \A i \in 1..Len(rows) :
        \A c \in Conversions(handlers[h], rows[i]) :
          /\ c.out.t \in {"null", c.type}
          /\ (NullToken(c.in) \/ Unparseable(c.in, c.type)) => c.out = JNull

(***************************************************************************)
(* The quality report                                                      *)
(***************************************************************************)
\* a report of the seven checks has been returned
Checked == report # NoReport /\ IsReport(report) /\ Len(report.checks) = 7

\* the result of the check entered under a name
ResultOf(name) ==
  report.checks[CHOOSE i \in 1..Len(report.checks) : report.checks[i].name = name].result

\* the alerts list of the report has an alert with this wording
Alerted(text) == \E i \in 1..Len(report.alerts) : report.alerts[i].text = text

\* the keys that two observations at least share
SharedKeys ==
  {GroupKey(observations[i]) :
     i \in {j \in 1..Len(observations) :
              \E k \in 1..Len(observations) :
                k # j /\ GroupKey(observations[k]) = GroupKey(observations[j])}}

AllDated ==
  \A i \in 1..Len(observations) :
    /\ Get(observations[i], "dh_utc").t = "str"
    /\ date_parser_parse(Get(observations[i], "dh_utc").v).ok

DaysObserved ==
  {date_parser_parse(Get(observations[i], "dh_utc").v).day : i \in 1..Len(observations)}

\* the observations fall on exactly days 1, 2 and 4 of a 4-day span
OnDays124 ==
  /\ observations # <<>>
  /\ AllDated
  /\ \E first \in DaysObserved : DaysObserved = {first, first + 1, first + 3}

\* C18: for a store whose observations fall on exactly days 1, 2 and 4 of a 4-day
\* span, whatever the times of day and the number of observations per day, the date
\* coverage check reports a ratio of 75.0 and status WARN; whenever a ratio is
\* computed the status is PASS exactly when the ratio is at least 95
C18_Days124Coverage ==
  Checked =>
    LET coverage == ResultOf("date_coverage") IN
    /\ serving /\ OnDays124 => coverage.coverage_percentage = 7500 /\ coverage.status = "WARN"
    /\ coverage.reason = "Date coverage" =>
         (coverage.status = "PASS"
            <=> 100 * coverage.unique_dates >= 95 * coverage.total_days)

\* the aggregation of the date coverage check finds no earliest timestamp
NoDateData ==
  DateStats(observations).min_date \in {JNull, JStr(<<>>)}

\* the earliest or the latest timestamp it finds is not a date
EndsUnparsed ==
  /\ ~NoDateData
  /\ \/ ~date_parser_parse(DateStats(observations).min_date.v).ok
     \/ ~date_parser_parse(DateStats(observations).max_date.v).ok

Statuses == {"PASS", "WARN", "ERROR"}

\* C19 as stated: the date coverage check returns a status and a reason whatever
\* happens; status WARN when the aggregation yields no date data, status ERROR when
\* the earliest or latest timestamp cannot be parsed
C19_ParseFailureIsError ==
  Checked =>
    LET coverage == ResultOf("date_coverage") IN
    /\ coverage.status \in Statuses /\ coverage.reason # ""
    /\ serving /\ NoDateData => coverage.status = "WARN"
    /\ serving /\ EndsUnparsed => coverage.status = "ERROR"

\* C19 amended: the date coverage check returns a status and a reason whatever
\* happens; status WARN when the aggregation yields no date data and also when the
\* earliest or latest timestamp cannot be parsed, each with its own reason, and
\* status ERROR exactly when the aggregation itself fails
C19_ParseFailureIsWarn ==
  Checked =>
    LET coverage == ResultOf("date_coverage") IN
    /\ coverage.status \in Statuses /\ coverage.reason # ""
    /\ serving /\ NoDateData =>
         coverage.status = "WARN" /\ coverage.reason = "No date data or aggregation failed"
    /\ serving /\ EndsUnparsed =>
         coverage.status = "WARN" /\ coverage.reason = "Date parsing failed"
    /\ coverage.status = "ERROR" <=> ~serving
    /\ ~serving => coverage.reason = "Aggregation failed"

\* a store whose latest timestamp is not a date while its earliest is one
C19_Witness ==
  /\ Checked
  /\ serving
  /\ EndsUnparsed
  /\ date_parser_parse(DateStats(observations).min_date.v).ok
  /\ ResultOf("date_coverage").status = "WARN"

\* the seven checks, by the names under which run_all_checks enters their results
FixedOrder ==
  <<"missing_required_fields", "duplicates", "data_ranges", "null_percentages",
    "unique_values", "type_consistency", "date_coverage">>

\* the check whose code appends an alert of this wording
RaisedBy(alert) ==
  CASE alert.text = "Missing required fields" -> 1
    [] alert.text = "High duplicate rate" -> 2
    [] alert.text \in {"Temperature below", "Temperature above",
                       "Pressure below", "Pressure above"} -> 3
    [] alert.text = "High null rate for" -> 4
    [] alert.text = "Non-string id_station values detected" -> 6

NumbersOf(field) ==
  {Hundredths(Get(observations[i], field)) :
     i \in {j \in 1..Len(observations) : Get(observations[j], field).t \in {"int", "num"}}}

\* the number of alerts of the report with this wording
AlertCount(text) ==
  Cardinality({i \in 1..Len(report.alerts) : report.alerts[i].text = text})

\* C21: the report has one temperature alert for a minimum below -50 and one for a
\* maximum above 60, one pressure alert for a minimum below 900 and one for a
\* maximum above 1050, each exactly when its bound is passed and whatever the other
\* bound does; values on a bound raise none, and no alert is about humidity
C21_BoundsTestedIndependently ==
  Checked =>
    /\ AlertCount("Temperature below")
         = IF \E v \in NumbersOf("temperature") : v < 0 - 5000 THEN 1 ELSE 0
    /\ AlertCount("Temperature above")
         = IF \E v \in NumbersOf("temperature") : v > 6000 THEN 1 ELSE 0
    /\ AlertCount("Pressure below")
         = IF \E v \in NumbersOf("pression") : v < 90000 THEN 1 ELSE 0
    /\ AlertCount("Pressure above")
         = IF \E v \in NumbersOf("pression") : v > 105000 THEN 1 ELSE 0
    /\ \A i \in 1..Len(report.alerts) :
         RaisedBy(report.alerts[i]) = 3 => report.alerts[i].field \in {"temperature", "pression"}

\* a store with temperatures beyond both bounds, pressures on both bounds and a
\* humidity of 150: two temperature alerts, no other alert of the range check
C21_Witness ==
  /\ Checked
  /\ NumbersOf("pression") = {90000, 105000}
  /\ 15000 \in NumbersOf("humidite")
  /\ AlertCount("Temperature below") = 1
  /\ AlertCount("Temperature above") = 1
  /\ AlertCount("Pressure below") + AlertCount("Pressure above") = 0

(***************************************************************************)
(* The schema metadata and what the loader keeps                           *)
(***************************************************************************)
\* the classes of keywords in the order of their priority, with their type tags
TypeClasses ==
  <<[words |-> {<<"s", "t", "r", "i", "n", "g">>, <<"t", "e", "x", "t">>}, tag |-> "string"],
    [words |-> {<<"i", "n", "t">>, <<"c", "o", "d", "e">>}, tag |-> "int"],
    [words |-> {<<"f", "l", "o", "a", "t">>, <<"d", "o", "u", "b", "l", "e">>, <<"d", "e", "c", "i", "m", "a", "l">>}, tag |-> "double"],
    [words |-> {<<"b", "o", "o", "l">>}, tag |-> "bool"],
    [words |-> {<<"d", "a", "t", "e">>, <<"t", "i", "m", "e", "s", "t", "a", "m", "p">>}, tag |-> "string"]>>

\* the classes a keyword of which occurs in the lower-cased description
ClassesIn(description) ==
  {k \in 1..Len(TypeClasses) :
     \E word \in TypeClasses[k].words : HasSubstring(word, Lower(description))}

StationIdsOf(coll) == {Get(coll[i], "id_station") : i \in 1..Len(coll)}

ObsKeysOf(coll) == {GroupKey(coll[i]) : i \in 1..Len(coll)}

FieldNamesOf(coll) == {coll[i].field_name : i \in 1..Len(coll)}

\* C26: no call of load_jsonl_data or load_schema_metadata removes a station
\* identifier, an observation key (id_station, dh_utc) or a schema field name from
\* the store, nor a document from a collection
C26_LoaderNeverDeletes ==
  [][/\ StationIdsOf(stations) \subseteq StationIdsOf(stations')
     /\ ObsKeysOf(observations) \subseteq ObsKeysOf(observations')
     /\ FieldNamesOf(schema_metadata) \subseteq FieldNamesOf(schema_metadata')
     /\ Len(stations) <= Len(stations')
     /\ Len(observations) <= Len(observations')]_vars

\* a store with a station, an observation and the schema, the last load having
\* written an observation that was already stored
C26_Witness ==
  /\ Len(stations) = 1
  /\ Len(observations) = 1
  /\ Len(schema_metadata) = 2
  /\ stats.observations_updated = 1

(***************************************************************************)
(* The checker and its store                                               *)
(***************************************************************************)
\* C22: a step in which run_all_checks is called (it returns a report, raises, or
\* appends to the alerts of its checker) leaves the stations, observations and
\* schema_metadata collections as they were
C22_ChecksReadOnly ==
  [][(report' # report \/ alerts' # alerts \/ returned' # returned) =>
       /\ observations' = observations
       /\ stations' = stations
       /\ schema_metadata' = schema_metadata]_vars

C22_Witness ==
  /\ Checked
  /\ Len(returned) = 2
  /\ schema_metadata # <<>>
  /\ report.collections.schema_metadata_total = Len(schema_metadata)

\* C24: when one of the seven checks cannot complete on a populated store (its store
\* query raises), run_all_checks still returns a report of seven checks in which
\* that check carries the status ERROR or WARN
C24_FailingCheckDegrades ==
  (report # NoReport /\ observations # <<>>) =>
    /\ IsReport(report)
    /\ Len(report.checks) = 7
    /\ failing # 0 => /\ "status" \in DOMAIN report.checks[failing].result
                      /\ report.checks[failing].result.status \in {"ERROR", "WARN"}
    /\ (failing = 0 /\ ~serving) =>
         /\ "status" \in DOMAIN report.checks[7].result
         /\ report.checks[7].result.status \in {"ERROR", "WARN"}

\* what does hold: the date coverage check, alone, degrades in place
DateCoverageDegrades ==
  (report # NoReport /\ observations # <<>> /\ failing = 0 /\ ~serving) =>
    /\ Checked
    /\ report.checks[7].result = [status |-> "ERROR", reason |-> "Aggregation failed"]

\* C28: two run_all_checks calls on the same checker against an unchanged store
\* return the same alerts: the second report does not hold the alerts of the first
\* call a second time, and the alerts of the first report are what they were when it
\* was returned
C28_SecondRunSameAlerts ==
  Len(returned) = 2 =>
    /\ returned[2].alerts = run_all_checks(<<>>, observations, stations, schema_metadata,
                                           now, serving, 0).report.alerts
    /\ returned[1].alerts = returned[2].alerts

\* what does hold: each call appends the alerts of its checks to those of the calls
\* before, and every report returned for a populated store shows the whole list
AlertsAccumulate ==
  (Len(returned) = 2 /\ observations # <<>>) =>
    LET once == run_all_checks(<<>>, observations, stations, schema_metadata, now,
                               serving, 0).report.alerts IN
    /\ returned[2].alerts = alerts
    /\ returned[1].alerts = alerts
    /\ failing = 0 => alerts = once \o once

\* C30: on a populated store whose timestamps all parse, the coverage_percentage of
\* the date coverage check lies between 0 and 100, also when a day carries several
\* observations at different hours
C30_CoverageWithin100 ==
  (Checked /\ serving /\ AllDated) =>
    /\ ResultOf("date_coverage").reason = "Date coverage"
    /\ ResultOf("date_coverage").coverage_percentage \in 0..10000

\* what does hold: the ratio is that of the distinct timestamps to the whole days
\* from the first instant to the last, and is never negative
CoverageCountsTimestamps ==
  (Checked /\ serving /\ AllDated) =>
    LET coverage == ResultOf("date_coverage") IN
    /\ coverage.reason = "Date coverage"
    /\ coverage.unique_dates = Cardinality(Distinct(observations, "dh_utc"))
    /\ coverage.coverage_percentage = Percentage(coverage.unique_dates, coverage.total_days)
    /\ coverage.coverage_percentage >= 0

(***************************************************************************)
(* The accounting of a load                                                *)
(***************************************************************************)
IsBulk(line) ==
  line.kind = "json" /\ "stations" \in DOMAIN line.data /\ "hourly" \in DOMAIN line.data

\* the elements of the hourly entries of a bulk line
RECURSIVE HourlyElements(_)
HourlyElements(items) ==
  IF items = <<>> THEN <<>>
  ELSE (IF IsList(Head(items).observations) THEN Head(items).observations.v ELSE <<>>)
       \o HourlyElements(Tail(items))

\* the observation records a line presents, an undecodable line counting for one
Presented(line) ==
  IF line.kind = "invalid" THEN 1
  ELSE IF IsBulk(line) THEN Len(HourlyElements(line.data["hourly"]))
  ELSE 1

RECURSIVE PresentedIn(_)
PresentedIn(content) ==
  IF content = <<>> THEN 0 ELSE Presented(Head(content)) + PresentedIn(Tail(content))

Accounted(counters) ==
  counters.observations_inserted + counters.observations_updated
    + counters.skipped + counters.errors

\* C27: the counters observations_inserted, observations_updated, skipped and errors
\* returned by a load add up to the number of observation records of its content
\* (the elements of the hourly entries of its bulk lines and its single-observation
\* lines, those without id_station or dh_utc key included) plus the number of its
\* undecodable lines
C27_EveryRecordCounted ==
  \A i \in 1..Len(runs) : Accounted(runs[i].stats) = PresentedIn(runs[i].content)

\* a line whose records all reach _insert_observation and come back from it: its
\* stations and observations are objects, and a single observation has both keys
Classifiable(line) ==
  \/ line.kind = "invalid"
  \/ /\ IsBulk(line)
     /\ \A k \in 1..Len(line.data["stations"]) : IsDict(line.data["stations"][k])
     /\ \A k \in 1..Len(HourlyElements(line.data["hourly"])) :
          IsDict(HourlyElements(line.data["hourly"])[k])
  \/ /\ line.kind = "json"
     /\ "id_station" \in DOMAIN line.data
     /\ "dh_utc" \in DOMAIN line.data

\* what does hold: the accounting is complete for the loads of classifiable lines
ClassifiableAreCounted ==
  \A i \in 1..Len(runs) :
    (\A k \in 1..Len(runs[i].content) : Classifiable(runs[i].content[k]))
      => Accounted(runs[i].stats) = PresentedIn(runs[i].content)

(***************************************************************************)
(* The filter of the adapters and the validator of the loader              *)
(***************************************************************************)
\* the normalized rows the handlers of the run read, before any filtering
ReadRows ==
  UNION {UNION {{SourceRead(handlers[s]).hourly[i].observations[k] :
                   k \in 1..Len(SourceRead(handlers[s]).hourly[i].observations)} :
                  i \in 1..Len(SourceRead(handlers[s]).hourly)} :
         s \in 1..Len(handlers)}

\* a row with a station identifier and a timestamp the validator accepts
Identified(row) ==
  /\ Truthy(Get(row, "id_station"))
  /\ IsStr(Get(row, "dh_utc"))
  /\ Contains("T", Get(row, "dh_utc").v)
  /\ Contains("Z", Get(row, "dh_utc").v)

Survives(row) == filter_empty_rows(<<row>>) = <<row>>

\* C29: a normalized observation with a valid station identifier and timestamp
\* survives filter_empty_rows exactly when validate_observation accepts it
C29_FilterAgreesWithValidator ==
  \A row \in ReadRows :
    Identified(row) => (Survives(row) <=> validate_observation(row).valid)

\* what does hold: the two agree on the rows that hold a value in one of the fields
\* both lists name, or in none of visibilite and pluie_3h
AgreeOnSharedFields ==
  \A row \in ReadRows :
    (/\ Identified(row)
     /\ \/ \E field \in FilterMeasurementFields \cap ValidatorMeasurementFields :
             HasValue(row, field)
        \/ Get(row, "visibilite") = JNull /\ Get(row, "pluie_3h") = JNull)
      => (Survives(row) <=> validate_observation(row).valid)

Fatal == {"connect", "create", "query", "save"}

====
